---- MODULE Spec2Model ----
(***************************************************************************)
(* Handwriting-to-Markdown workflow: the ingestion sweep of                *)
(* process_notes.py, the credential cache and the folder creation of       *)
(* onedrive_client.py, modelled as state machines.                         *)
(*                                                                         *)
(*   SpecSweep   one run of main(): list, filter, per-file pipeline        *)
(*   SpecToken   calls of OneDriveClient._get_access_token over time       *)
(*   SpecEnsure  two invocations of OneDriveClient._ensure_folder_exists   *)
(*               on one remote store, sequential or interleaved            *)
(***************************************************************************)
EXTENDS Integers, Sequences, FiniteSets, TLC

VARIABLES
    \* ---- OneDriveClient credential cache (onedrive_client.py:29-33) ----
    access_token,       \* self.access_token, NoToken for None
    token_expires_at,   \* self.token_expires_at
    now,                \* time.time(), in seconds
    \* ---- history of _get_access_token calls (SpecToken) ----
    exchanges,          \* number of POSTs sent to the token endpoint so far
    last_call,          \* what the latest _get_access_token call did
    \* ---- main() of process_notes.py ----
    pc,                 \* position in main()
    listing,            \* children of the source folder, provider order
    files,              \* main's `files` after the filter of lines 83-86
    idx,                \* position of the for loop in `files` (1-based)
    file_ext,           \* main's `file_ext` for the current file
    image_bytes,        \* main's `image_bytes` for the current file
    result,             \* main's `result` (ExtractionResult) for the current file
    processed_count,    \* main's `processed_count`
    reported,           \* the count logged at line 165, NoReport before
    calls,              \* client / collaborator calls made by main so far
    auth_fail_at,       \* position in calls of the first call whose token exchange failed, 0 if none
    \* ---- remote store ----
    store_source,       \* names of the files in the source folder
    store_processed,    \* names of the files in the processed folder
    store_dest,         \* paths of the files written below the dest folder
    \* ---- _ensure_folder_exists invocations (SpecEnsure) ----
    folders,            \* folders of the remote store
    epc,                \* per invocation: position in _ensure_folder_exists
    epath,              \* per invocation: the folder_path argument
    ecur,               \* per invocation: number of parts joined into current_path
    ereqs,              \* per invocation: its create-folder requests, with their status
    etransient,         \* some probe or create request was answered with a transient status
    folders0,           \* the folders of the store before the first invocation
    overlap,            \* the two invocations were in progress at the same time
    \* ---- successive runs of main() (SpecRerun) ----
    run,                \* number of the run of main() in progress, from 1
    day,                \* the day on which the run takes place, from 1
    prev,               \* what the previous run left half done, per file name
    \* ---- NoteProcessor.process_image (SpecExtract) ----
    xpc,                \* position in process_image
    ximage,             \* the image_bytes argument
    note_type,          \* process_image's `note_type`
    extracted_text,     \* process_image's `extracted_text`
    xcalls,             \* the model calls made so far, with input and output
    xresult,            \* the dictionary returned
    \* ---- OneDriveClient.list_files (SpecList) ----
    lpc,                \* position in list_files
    lpages,             \* the pages the provider serves for the folder
    lurl,               \* list_files' `url`
    lfiles,             \* list_files' `files`
    lgets,              \* the GETs list_files sent: page asked for and status
    lret,               \* the value returned
    \* ---- OneDriveClient.file_exists / download_file (SpecClient) ----
    cstore,             \* remote paths that exist
    last_req,           \* what the latest file_exists / download_file call did
    \* ---- execute_image_completion / execute_text_completion (SpecCompletion) ----
    sent,               \* the requests sent to the model endpoint so far
    last_completion,    \* what the latest completion call did
    \* ---- OneDriveClient._get_drive_path (SpecPath) ----
    last_path,          \* argument and value of the latest _get_drive_path call
    prev_path,          \* argument and value of the call before it
    \* ---- OneDriveClient.upload_file / move_file (SpecWrite) ----
    wpc,                \* position in upload_file / move_file
    wop,                \* which of the two is called
    wtarget,            \* the file_path / dest_path argument
    wsent               \* the PUT / PATCH requests the call sent, with their status

tokenVars  == <<access_token, token_expires_at, now>>
tokenHist  == <<exchanges, last_call>>
sweepVars  == <<pc, listing, files, idx, file_ext, image_bytes, result, processed_count,
                reported, calls, auth_fail_at, store_source, store_processed,
                store_dest>>
ensureVars == <<folders, epc, epath, ecur, ereqs, etransient, folders0, overlap>>
rerunVars  == <<run, day, prev>>
extractVars == <<xpc, ximage, note_type, extracted_text, xcalls, xresult>>
listVars   == <<lpc, lpages, lurl, lfiles, lgets, lret>>
clientVars == <<cstore, last_req>>
completionVars == <<sent, last_completion>>
pathVars   == <<last_path, prev_path>>
writeVars  == <<wpc, wop, wtarget, wsent>>
extraVars  == <<completionVars, pathVars, writeVars>>
auxVars    == <<rerunVars, extractVars, listVars, clientVars, extraVars>>
notExtractVars == <<tokenVars, tokenHist, sweepVars, ensureVars, rerunVars, listVars,
                    clientVars, extraVars>>
vars       == <<tokenVars, tokenHist, sweepVars, ensureVars, auxVars>>

(***************************************************************************)
(* Bounds of the model                                                     *)
(***************************************************************************)
MaxFiles    == 3      \* longest listing of the source folder
MaxNow      == 4200   \* SpecToken: the clock stops here
MaxExchanges == 3     \* SpecToken: token POSTs followed
MaxSweepNow == 3300   \* SpecSweep: the clock stops here
MaxDepth    == 3      \* SpecEnsure: most segments of a folder path

(***************************************************************************)
(* Credential manager: OneDriveClient._get_access_token                    *)
(***************************************************************************)
\* self.access_token = None; a token is kept as <<"tok", time of issue>>
NoToken == <<>>

TOKEN_BUFFER == 300

DEFAULT_EXPIRES_IN == 3600

\* expires_in values the token endpoint answers with (seconds)
ExpiresInValues == {200, 300, 600, 3600}

\* JSON bodies of a successful token response at time t: expires_in may be absent
TokenResponses(t) ==
    {[access_token |-> <<"tok", t>>, expires_in |-> e] : e \in ExpiresInValues}
        \cup {[access_token |-> <<"tok", t>>]}

\* token_data.get('expires_in', 3600)
ExpiresIn(token_data) ==
    IF "expires_in" \in DOMAIN token_data THEN token_data["expires_in"]
                                          ELSE DEFAULT_EXPIRES_IN

\* mutant: the cached token is never checked against its expiry
CachedTokenValidForever(tok, exp, t) == tok # NoToken

\* mutant: the 5 minute buffer is forgotten
CachedTokenValidNoBuffer(tok, exp, t) == tok # NoToken /\ t < exp

\* line 38: self.access_token and time.time() < self.token_expires_at - 300
CachedTokenValid(tok, exp, t) == tok # NoToken /\ t < exp - TOKEN_BUFFER

\* lines 55-57: the cache after a successful exchange answered at time t
Refreshed(token_data, t) ==
    [access_token |-> token_data["access_token"],
     token_expires_at |-> t + ExpiresIn(token_data)]

\* What the token endpoint may do with one POST sent at time t: answer after
\* d seconds (d \in D) with a success body, or with a non-success status
TokenAnswers(t, D) ==
    UNION {{[ok |-> TRUE, d |-> d, body |-> b] : b \in TokenResponses(t + d)} : d \in D}
        \cup {[ok |-> FALSE, d |-> d, body |-> [error |-> "invalid_grant"]] : d \in D}

\* mutant: a failed exchange drops the cached token
RefreshFailedClearsCache(tok, exp, t, answer) ==
    [posts |-> 1, raised |-> TRUE, ret |-> NoToken,
     access_token |-> NoToken, token_expires_at |-> 0, now |-> t + answer.d]

\* line 52: raise_for_status raises after the one POST of line 51, before
\* lines 54-57 assign the cache
RefreshFailed(tok, exp, t, answer) ==
    [posts |-> 1, raised |-> TRUE, ret |-> NoToken,
     access_token |-> tok, token_expires_at |-> exp, now |-> t + answer.d]

\* _get_access_token as a function of the cache (tok, exp), the clock t and the
\* endpoint's answer: the POSTs sent, whether raise_for_status raised, the
\* token returned, the cache and the clock afterwards.
GetToken(tok, exp, t, answer) ==
    IF CachedTokenValid(tok, exp, t)
    THEN [posts |-> 0, raised |-> FALSE, ret |-> tok,
          access_token |-> tok, token_expires_at |-> exp, now |-> t]
    ELSE IF answer.ok
    THEN [posts |-> 1, raised |-> FALSE,
          ret |-> Refreshed(answer.body, t + answer.d).access_token,
          access_token |-> Refreshed(answer.body, t + answer.d).access_token,
          token_expires_at |-> Refreshed(answer.body, t + answer.d).token_expires_at,
          now |-> t + answer.d]
    ELSE RefreshFailed(tok, exp, t, answer)

(***************************************************************************)
(* SpecToken: _get_access_token called again and again while time passes   *)
(***************************************************************************)
\* seconds by which the clock advances between calls
TickSteps == {300, 3000}

\* seconds a token POST takes
Latencies == {0, 5}

NoCall == [kind |-> "none"]

\* values of the variables a specification does not use
IdleSweep ==
    /\ pc = "idle" /\ listing = <<>> /\ files = <<>> /\ idx = 0
    /\ file_ext = "" /\ image_bytes = "" /\ result = "" /\ processed_count = 0
    /\ reported = <<>> /\ calls = <<>> /\ auth_fail_at = 0
    /\ store_source = {} /\ store_processed = {} /\ store_dest = {}

IdleEnsure ==
    /\ folders = {} /\ epc = <<>> /\ epath = <<>> /\ ecur = <<>>
    /\ ereqs = <<>> /\ etransient = FALSE /\ folders0 = {} /\ overlap = FALSE

IdleTokenHist == exchanges = 0 /\ last_call = NoCall

IdleRerun == run = 1 /\ day = 1 /\ prev = {}

IdleExtract ==
    /\ xpc = "idle" /\ ximage = "" /\ note_type = "" /\ extracted_text = <<>>
    /\ xcalls = <<>> /\ xresult = <<>>

IdleList ==
    /\ lpc = "idle" /\ lpages = <<>> /\ lurl = <<>> /\ lfiles = <<>>
    /\ lgets = <<>> /\ lret = <<>>

IdleClient == cstore = {} /\ last_req = NoCall

IdleCompletion == sent = <<>> /\ last_completion = NoCall

IdlePath == last_path = NoCall /\ prev_path = NoCall

IdleWrite == wpc = "idle" /\ wop = "" /\ wtarget = NoCall /\ wsent = <<>>

IdleExtra == IdleCompletion /\ IdlePath /\ IdleWrite

IdleAux == IdleRerun /\ IdleExtract /\ IdleList /\ IdleClient /\ IdleExtra

\* __init__, lines 32-33
InitCache == access_token = NoToken /\ token_expires_at = 0 /\ now = 0

InitToken == InitCache /\ IdleTokenHist /\ IdleSweep /\ IdleEnsure /\ IdleAux

\* a caller invokes _get_access_token (through _get_headers)
TokenCall ==
    /\ now < MaxNow
    /\ exchanges < MaxExchanges
    /\ \E answer \in TokenAnswers(now, Latencies) :
        LET g == GetToken(access_token, token_expires_at, now, answer) IN
        /\ access_token' = g.access_token
        /\ token_expires_at' = g.token_expires_at
        /\ now' = g.now
        /\ exchanges' = exchanges + g.posts
        /\ last_call' = [kind |-> "call", started |-> now, at |-> g.now,
                         posts |-> g.posts, raised |-> g.raised, ret |-> g.ret,
                         before_token |-> access_token,
                         before_expires_at |-> token_expires_at,
                         body |-> IF g.posts = 1 THEN answer.body ELSE [cached |-> TRUE]]
    /\ UNCHANGED <<sweepVars, ensureVars, auxVars>>

\* time passes between two calls
TokenTick ==
    /\ \E s \in TickSteps :
        /\ now + s <= MaxNow
        /\ now' = now + s
    /\ UNCHANGED <<access_token, token_expires_at, tokenHist, auxVars, sweepVars, ensureVars>>

NextToken == TokenCall \/ TokenTick

SpecToken == InitToken /\ [][NextToken]_vars

(***************************************************************************)
(* SpecSweep: one run of main() in process_notes.py                        *)
(***************************************************************************)
\* lines 45-47, the defaults
source_folder == "Handwritten Notes"

dest_folder == "second-brain/second-brain/_scans"

processed_folder == "Handwritten Notes/processed"

\* line 89
supported_extensions == {".jpg", ".jpeg", ".png", ".gif", ".bmp", ".tiff", ".pdf"}

\* A file name is kept in three pieces: name = dir \o stem \o suffix, where
\* suffix is what Path(name).suffix returns
FileName(dir, stem, suffix) == [dir |-> dir, stem |-> stem, suffix |-> suffix]

\* An entry of a listing; folder: the entry carries the 'folder' key
Entry(n, isFolder) == [name |-> n, folder |-> isFolder]

\* What the source folder may hold, in provider order
Provider ==
    << Entry(FileName("", "note1", ".jpg"), FALSE),
       Entry(FileName("", "readme", ".txt"), FALSE),
       Entry(FileName("", "notes", ".pdf"), FALSE),
       Entry(FileName("", "album", ".png"), TRUE),
       Entry(FileName("", "scan", ".PNG"), FALSE),
       Entry(FileName("processed/", "old", ".jpg"), FALSE) >>

\* names that may already sit in the processed folder when the run starts
Recurring == {FileName("", "note1", ".jpg")}

\* titles the extraction pipeline may return for an image on day d (model
\* output plus datestamp); two of the source files lead to the same title
Titles(bytes, d) ==
    IF bytes = [first_page_of |-> [content_of |-> FileName("", "notes", ".pdf")]]
    THEN {IF d = 1 THEN "Minutes 2025-01-01" ELSE "Minutes 2025-01-02"}
    ELSE {IF d = 1 THEN "Shopping list 2025-01-01" ELSE "Shopping list 2025-01-02"}

\* str.lower() on the suffixes that occur
Lower(suffix) == IF suffix = ".PNG" THEN ".png" ELSE suffix

\* f"{folder}/{name}"
Path(folder, name) == [folder |-> folder, name |-> name]

\* mutant: folders are not dropped
KeepFolders(f) == f.name.dir # "processed/"

\* lines 83-86: 'folder' not in f and not name.startswith('processed/')
Keep(f) == ~f.folder /\ f.name.dir # "processed/"

\* the sequence in reverse
Reverse(seq) == [i \in 1..Len(seq) |-> seq[Len(seq) + 1 - i]]

\* mutant: the worklist is walked from the end of the listing
FilteredReversed(l) == Reverse(SelectSeq(l, Keep))

\* lines 83-86 and 93: the list comprehension keeps the order of the listing,
\* and the for loop walks it front to back
Filtered(l) == SelectSeq(l, Keep)

\* the order-preserving selection of Provider at the positions S
Pick(S) ==
    LET n == Cardinality(S)
        f == CHOOSE g \in [1..n -> S] : \A i, j \in 1..n : i < j => g[i] < g[j]
    IN  [i \in 1..n |-> Provider[f[i]]]

Listings == {Pick(S) : S \in {T \in SUBSET (1..Len(Provider)) : Cardinality(T) <= MaxFiles}}

Names(seq) == {seq[i].name : i \in 1..Len(seq)}

\* the bytes stored under a source name, and convert_pdf_to_image of bytes
Bytes(name) == [content_of |-> name]

\* mutant: the PDF bytes are passed on as they are
JpegSkipped(bytes) == bytes

Jpeg(bytes) == [first_page_of |-> bytes]

\* nothing reported yet; a reported count c is kept as <<c>>
NoReport == <<>>

InitSweep ==
    /\ InitCache /\ IdleTokenHist /\ IdleEnsure /\ IdleAux
    /\ pc = "list"
    /\ listing \in Listings
    /\ files = <<>> /\ idx = 0 /\ file_ext = "" /\ image_bytes = "" /\ result = ""
    /\ processed_count = 0 /\ reported = NoReport /\ calls = <<>> /\ auth_fail_at = 0
    /\ store_source = {e.name : e \in {listing[i] : i \in 1..Len(listing)}}
    /\ store_processed \in SUBSET (Names(listing) \cap Recurring)
    /\ store_dest = {}

\* the endpoint's answers during a sweep: at once, expires_in left out
SweepAnswers(t) ==
    {[ok |-> TRUE, d |-> 0, body |-> [access_token |-> <<"tok", t>>]],
     [ok |-> FALSE, d |-> 0, body |-> [error |-> "invalid_grant"]]}

\* _get_headers() at the head of a client method: out = "auth" exactly when
\* the token exchange raised; otherwise the request is sent and either
\* succeeds ("ok") or raises ("http": non-2xx status or network error)
Outcomes == {"ok", "auth", "http"}

ClientCall(out) ==
    \E answer \in SweepAnswers(now) :
        LET g == GetToken(access_token, token_expires_at, now, answer) IN
        /\ (out = "auth") <=> g.raised
        /\ access_token' = g.access_token
        /\ token_expires_at' = g.token_expires_at
        /\ now' = g.now
        /\ auth_fail_at' = IF g.raised /\ auth_fail_at = 0 THEN Len(calls) + 1
                                                            ELSE auth_fail_at

Log(op, path, res) == calls' = Append(calls, [op |-> op, path |-> path, res |-> res])

file_name == files[idx].name

file_path == Path(source_folder, file_name)

processed_path == Path(processed_folder, file_name)

\* mutant: the outer handler logs the error and returns normally
FatalSwallowed == pc' = "done"

\* lines 167-169: except Exception -> sys.exit(1)
Fatal == pc' = "exit1"

\* mutant: break instead of continue
CaughtBreaks == pc' = "loop" /\ idx' = Len(files) + 1

\* mutant: the per-file handler re-raises, the run ends in sys.exit(1)
CaughtAborts == pc' = "exit1" /\ idx' = idx

\* lines 161-163: except Exception -> log, continue
Caught == pc' = "loop" /\ idx' = idx + 1

\* mutant: the increment is forgotten
CountedNot == processed_count' = processed_count

\* line 158
Counted == processed_count' = processed_count + 1

\* mutant: the `continue` of line 110 is missing
AfterProbeNoSkip(exists) == pc' = "download" /\ idx' = idx

\* lines 108-110: skip the file if the probe says it exists, else go on
AfterProbe(exists) ==
    IF exists THEN pc' = "loop" /\ idx' = idx + 1
              ELSE pc' = "download" /\ idx' = idx

\* mutant: the probe compares with the wrong status
FileExistsWrongStatus(status) == status = 204

\* mutant: every success status counts as "exists" (response.ok)
FileExistsAnySuccess(status) == status >= 200 /\ status <= 299

\* mutant: everything but 404 counts as "exists"
FileExistsUnlessNotFound(status) == status # 404

\* line 261
FileExists(status) == status = 200

\* mutant: a probe that raised counts as "already processed"
ProbeCaughtSkips == pc' = "loop" /\ idx' = idx + 1

\* lines 111-113: except Exception -> warning, fall through to line 115
ProbeCaught == pc' = "download" /\ idx' = idx

\* statuses the metadata GET of a path may return
ProbeStatuses(present) == IF present THEN {200, 503} ELSE {404, 503}

\* line 76 raised: the token exchange or a page fetch failed
ListFilesRaised ==
    /\ pc = "list"
    /\ \E out \in {"auth", "http"} :
        /\ ClientCall(out)
        /\ Log("list_files", source_folder, "raised")
    /\ Fatal
    /\ UNCHANGED <<tokenHist, auxVars, ensureVars, listing, files, idx, file_ext, image_bytes,
                   result, processed_count, reported, store_source, store_processed,
                   store_dest>>

\* lines 76-92: the listing arrives, is filtered, and the loop starts
ListFilesOk ==
    /\ pc = "list"
    /\ ClientCall("ok")
    /\ Log("list_files", source_folder, "ok")
    /\ IF listing = <<>>
       THEN pc' = "done" /\ UNCHANGED <<files, idx, processed_count>>
       ELSE /\ files' = Filtered(listing)
            /\ idx' = 1
            /\ processed_count' = 0
            /\ pc' = "loop"
    /\ UNCHANGED <<tokenHist, auxVars, ensureVars, listing, file_ext, image_bytes, result,
                   reported, store_source, store_processed, store_dest>>

\* line 165: the loop is over
Report ==
    /\ pc = "loop" /\ idx > Len(files)
    /\ reported' = <<processed_count>>
    /\ pc' = "done"
    /\ UNCHANGED <<tokenVars, tokenHist, auxVars, ensureVars, auth_fail_at, listing, files, idx, file_ext,
                   image_bytes, result, processed_count, calls, store_source,
                   store_processed, store_dest>>

\* lines 94-103: unsupported extension
SkipUnsupported ==
    /\ pc = "loop" /\ idx <= Len(files)
    /\ Lower(file_name.suffix) \notin supported_extensions
    /\ idx' = idx + 1
    /\ UNCHANGED <<tokenVars, tokenHist, auxVars, ensureVars, auth_fail_at, pc, listing, files, file_ext,
                   image_bytes, result, processed_count, reported, calls, store_source,
                   store_processed, store_dest>>

\* lines 94-106: a supported file, on to the probe
BeginFile ==
    /\ pc = "loop" /\ idx <= Len(files)
    /\ Lower(file_name.suffix) \in supported_extensions
    /\ file_ext' = Lower(file_name.suffix)
    /\ pc' = "probe"
    /\ UNCHANGED <<tokenVars, tokenHist, auxVars, ensureVars, auth_fail_at, listing, files, idx, image_bytes,
                   result, processed_count, reported, calls, store_source,
                   store_processed, store_dest>>

\* lines 107-110: the probe answers
ProbeAnswered ==
    /\ pc = "probe"
    /\ ClientCall("ok")
    /\ \E status \in ProbeStatuses(file_name \in store_processed) :
        /\ Log("file_exists", processed_path,
               IF FileExists(status) THEN "true" ELSE "false")
        /\ AfterProbe(FileExists(status))
    /\ UNCHANGED <<tokenHist, auxVars, ensureVars, listing, files, file_ext, image_bytes, result,
                   processed_count, reported, store_source, store_processed, store_dest>>

\* lines 111-113: the probe raised (token exchange or network), go on anyway
ProbeRaised ==
    /\ pc = "probe"
    /\ \E out \in {"auth", "http"} : ClientCall(out)
    /\ Log("file_exists", processed_path, "raised")
    /\ ProbeCaught
    /\ UNCHANGED <<tokenHist, auxVars, ensureVars, listing, files, file_ext, image_bytes,
                   result, processed_count, reported, store_source, store_processed,
                   store_dest>>

\* lines 119-128
Download ==
    /\ pc = "download"
    /\ \E out \in Outcomes :
        /\ ClientCall(out)
        /\ IF out = "ok"
           THEN /\ Log("download_file", file_path, "ok")
                /\ image_bytes' = Bytes(file_name)
                /\ pc' = IF file_ext = ".pdf" THEN "convert" ELSE "extract"
                /\ idx' = idx
           ELSE /\ Log("download_file", file_path, "raised")
                /\ Caught
                /\ UNCHANGED image_bytes
    /\ UNCHANGED <<tokenHist, auxVars, ensureVars, listing, files, file_ext, result,
                   processed_count, reported, store_source, store_processed, store_dest>>

\* lines 122-126
ConvertPdf ==
    /\ pc = "convert"
    /\ \E ok \in BOOLEAN :
        IF ok
        THEN /\ Log("convert_pdf_to_image", image_bytes, "ok")
             /\ image_bytes' = Jpeg(image_bytes)
             /\ file_ext' = ".jpg"
             /\ pc' = "extract" /\ idx' = idx
        ELSE /\ Log("convert_pdf_to_image", image_bytes, "raised")
             /\ Caught
             /\ UNCHANGED <<image_bytes, file_ext>>
    /\ UNCHANGED <<tokenVars, tokenHist, auxVars, ensureVars, auth_fail_at, listing, files, result,
                   processed_count, reported, store_source, store_processed, store_dest>>

\* line 132
Extract ==
    /\ pc = "extract"
    /\ \/ /\ \E t \in Titles(image_bytes, day) :
                result' = [noteType |-> "PAPER", extractedTitle |-> t,
                           extractedText |-> [text_of |-> image_bytes]]
          /\ Log("process_image", image_bytes, "ok")
          /\ pc' = "upload_md" /\ idx' = idx
       \/ /\ Log("process_image", image_bytes, "raised")
          /\ Caught
          /\ UNCHANGED result
    /\ UNCHANGED <<tokenVars, tokenHist, auxVars, ensureVars, auth_fail_at, listing, files, file_ext, image_bytes,
                   processed_count, reported, store_source, store_processed, store_dest>>

\* lines 174-175: datetime.now().strftime('%Y-%m-%d %H:%M')
Minute(d, t) == [day |-> d, minute |-> t \div 60]

\* lines 172-190: create_markdown_content(note_type, title, text, image_ext)
create_markdown_content(nt, title, text, image_ext) ==
    LET created_date == Minute(day, now)
    IN  [note_type |-> nt, created_date |-> created_date,
         last_updated |-> created_date,
         image |-> FileName("", title, image_ext), text |-> text]

\* lines 135-140
markdown_content ==
    create_markdown_content(result.noteType, result.extractedTitle,
                            result.extractedText, file_ext)

\* lines 143-144
markdown_path == Path(dest_folder, FileName("", result.extractedTitle, ".md"))

\* mutant: the image is stored under the extension of the original
image_path_of_original ==
    Path(dest_folder, FileName("", result.extractedTitle, Lower(file_name.suffix)))

\* lines 149-150
image_path == Path(dest_folder, FileName("", result.extractedTitle, file_ext))

\* a PUT of content to path overwrites by path
Put(path, content) ==
    store_dest' = {e \in store_dest : e.path # path}
                      \cup {[path |-> path, content |-> content]}

\* lines 135-146
UploadMarkdown ==
    /\ pc = "upload_md"
    /\ \E out \in Outcomes :
        /\ ClientCall(out)
        /\ IF out = "ok"
           THEN /\ Log("upload_file", markdown_path, "ok")
                /\ Put(markdown_path, markdown_content)
                /\ pc' = "upload_img" /\ idx' = idx
           ELSE /\ Log("upload_file", markdown_path, "raised")
                /\ Caught
                /\ UNCHANGED store_dest
    /\ UNCHANGED <<tokenHist, auxVars, ensureVars, listing, files, file_ext, image_bytes, result,
                   processed_count, reported, store_source, store_processed>>

\* mutant: a failed image upload is swallowed and the move goes ahead
UploadImageSwallowed ==
    /\ pc = "upload_img"
    /\ \E out \in Outcomes :
        /\ ClientCall(out)
        /\ Log("upload_file", image_path, IF out = "ok" THEN "ok" ELSE "raised")
        /\ IF out = "ok" THEN Put(image_path, image_bytes) ELSE UNCHANGED store_dest
        /\ pc' = "move" /\ idx' = idx
    /\ UNCHANGED <<tokenHist, auxVars, ensureVars, listing, files, file_ext, image_bytes, result,
                   processed_count, reported, store_source, store_processed>>

\* lines 149-152
UploadImage ==
    /\ pc = "upload_img"
    /\ \E out \in Outcomes :
        /\ ClientCall(out)
        /\ IF out = "ok"
           THEN /\ Log("upload_file", image_path, "ok")
                /\ Put(image_path, image_bytes)
                /\ pc' = "move" /\ idx' = idx
           ELSE /\ Log("upload_file", image_path, "raised")
                /\ Caught
                /\ UNCHANGED store_dest
    /\ UNCHANGED <<tokenHist, auxVars, ensureVars, listing, files, file_ext, image_bytes, result,
                   processed_count, reported, store_source, store_processed>>

\* lines 156-159; the PATCH succeeds only if the source is there and the
\* target name is free
MoveFile ==
    /\ pc = "move"
    /\ \E out \in Outcomes :
        /\ ClientCall(out)
        /\ out = "ok" => file_name \in store_source /\ file_name \notin store_processed
        /\ IF out = "ok"
           THEN /\ Log("move_file", <<file_path, processed_path>>, "ok")
                /\ store_source' = store_source \ {file_name}
                /\ store_processed' = store_processed \cup {file_name}
                /\ Counted
                /\ pc' = "loop" /\ idx' = idx + 1
           ELSE /\ Log("move_file", <<file_path, processed_path>>, "raised")
                /\ Caught
                /\ UNCHANGED <<store_source, store_processed, processed_count>>
    /\ UNCHANGED <<tokenHist, auxVars, ensureVars, listing, files, file_ext, image_bytes, result,
                   reported, store_dest>>

\* time passes while the sweep runs (long model calls): the cached token ages
SweepElapse ==
    /\ pc \notin {"done", "exit1"}
    /\ now < MaxSweepNow
    /\ now' = MaxSweepNow
    /\ UNCHANGED <<access_token, token_expires_at, tokenHist, auxVars, sweepVars, ensureVars>>

NextSweep ==
    \/ ListFilesRaised \/ ListFilesOk \/ Report \/ SkipUnsupported \/ BeginFile
    \/ ProbeAnswered \/ ProbeRaised \/ Download \/ ConvertPdf \/ Extract
    \/ UploadMarkdown \/ UploadImage \/ MoveFile \/ SweepElapse

SpecSweep == InitSweep /\ [][NextSweep]_vars

(***************************************************************************)
(* SpecEnsure: two invocations of _ensure_folder_exists on one store        *)
(***************************************************************************)
\* segment names, root to leaf
Segments == <<"x", "y", "z", "w">>

\* folder_path.split('/') of the folder paths ensured: "", "x", "x/y", "x/y/z"
EnsurePaths == {SubSeq(Segments, 1, k) : k \in 0..MaxDepth}

\* A folder of the store: copy 0 carries the name asked for, copy k > 0 is the
\* duplicate the store made under a changed name ("y 1", "y 2", ...)
Folder(parts, copy) == [path |-> parts, copy |-> copy]

Exists(fs, parts) == Folder(parts, 0) \in fs

\* line 197: "@microsoft.graph.conflictBehavior"
conflictBehavior == "rename"

\* The store's answer to POST <parent>/children {name, folder, conflictBehavior}:
\* the status and the folders afterwards
CreateAnswer(fs, parts, behavior) ==
    LET parent == SubSeq(parts, 1, Len(parts) - 1)
        copies == {f.copy : f \in {g \in fs : g.path = parts}}
        free   == CHOOSE c \in 0..Cardinality(copies) : c \notin copies
    IN  IF parent # <<>> /\ ~Exists(fs, parent)
        THEN [status |-> 404, folders |-> fs]
        ELSE IF ~Exists(fs, parts)
        THEN [status |-> 201, folders |-> fs \cup {Folder(parts, 0)}]
        ELSE IF behavior = "fail"
        THEN [status |-> 409, folders |-> fs]
        ELSE IF behavior = "rename"
        THEN [status |-> 201, folders |-> fs \cup {Folder(parts, free)}]
        ELSE [status |-> 201, folders |-> fs]

\* the answers a create request may get: the store's, or a transient 503
CreateAnswers(fs, parts) ==
    {CreateAnswer(fs, parts, conflictBehavior), [status |-> 503, folders |-> fs]}

\* lines 201-204: 409 is tolerated, any other non-2xx status raises
CreateRaises(status) == status # 409 /\ status >= 400

\* line 178: create the prefix when the probe says it is not there
NeedsCreate(exists) == ~exists

Invocations == {1, 2}

InProgress(i) == epc[i] \in {"check", "walk", "create"}

Finished(i) == epc[i] \in {"returned", "raised"}

InitEnsure ==
    /\ InitCache /\ IdleTokenHist /\ IdleSweep /\ IdleAux
    /\ folders \in {{Folder(SubSeq(Segments, 1, j), 0) : j \in 1..k} : k \in 0..MaxDepth}
    /\ folders0 = folders
    /\ epath \in [Invocations -> EnsurePaths]
    /\ epc = [i \in Invocations |-> "idle"]
    /\ ecur = [i \in Invocations |-> 0]
    /\ ereqs = [i \in Invocations |-> <<>>]
    /\ etransient = FALSE
    /\ overlap = FALSE

\* statuses a healthy store does not answer with
Transient(status) == status = 503

Probed(status) == etransient' = (etransient \/ Transient(status))

\* lines 160-161: upload_file or move_file calls _ensure_folder_exists;
\* invocation 2 is the later one to be called
EnsureStart(i) ==
    /\ epc[i] = "idle"
    /\ i = 2 => epc[1] # "idle"
    /\ epc' = [epc EXCEPT ![i] = IF epath[i] = <<>> THEN "returned" ELSE "check"]
    /\ overlap' = (overlap \/ \E j \in Invocations \ {i} : InProgress(j))
    /\ UNCHANGED <<tokenVars, tokenHist, auxVars, sweepVars, folders, epath, ecur, ereqs,
                   etransient, folders0>>

\* lines 164-165: the whole path is probed first
EnsureCheck(i) ==
    /\ epc[i] = "check"
    /\ \E status \in ProbeStatuses(Exists(folders, epath[i])) :
        /\ Probed(status)
        /\ epc' = [epc EXCEPT ![i] = IF FileExists(status) THEN "returned" ELSE "walk"]
    /\ UNCHANGED <<tokenVars, tokenHist, auxVars, sweepVars, folders, epath, ecur, ereqs,
                   folders0, overlap>>

\* lines 170-178: the next part is joined to current_path, which is probed
EnsureWalk(i) ==
    /\ epc[i] = "walk"
    /\ IF ecur[i] = Len(epath[i])
       THEN /\ epc' = [epc EXCEPT ![i] = "returned"]
            /\ UNCHANGED <<ecur, etransient>>
       ELSE /\ ecur' = [ecur EXCEPT ![i] = ecur[i] + 1]
            /\ \E status \in ProbeStatuses(Exists(folders, SubSeq(epath[i], 1, ecur[i] + 1))) :
                /\ Probed(status)
                /\ epc' = [epc EXCEPT ![i] =
                              IF NeedsCreate(FileExists(status)) THEN "create" ELSE "walk"]
    /\ UNCHANGED <<tokenVars, tokenHist, auxVars, sweepVars, folders, epath, ereqs, folders0,
                   overlap>>

\* lines 179, 181-205: _create_folder(current_path)
EnsureCreate(i) ==
    /\ epc[i] = "create"
    /\ \E answer \in CreateAnswers(folders, SubSeq(epath[i], 1, ecur[i])) :
        /\ folders' = answer.folders
        /\ ereqs' = [ereqs EXCEPT ![i] =
                        Append(@, [path |-> SubSeq(epath[i], 1, ecur[i]),
                                   existed |-> Exists(folders, SubSeq(epath[i], 1, ecur[i])),
                                   status |-> answer.status,
                                   made |-> answer.folders \ folders])]
        /\ Probed(answer.status)
        /\ epc' = [epc EXCEPT ![i] =
                      IF CreateRaises(answer.status) THEN "raised" ELSE "walk"]
    /\ UNCHANGED <<tokenVars, tokenHist, auxVars, sweepVars, epath, ecur, folders0, overlap>>

NextEnsure ==
    \E i \in Invocations :
        EnsureStart(i) \/ EnsureCheck(i) \/ EnsureWalk(i) \/ EnsureCreate(i)

SpecEnsure == InitEnsure /\ [][NextEnsure]_vars

(***************************************************************************)
(* SpecExtract: one call of NoteProcessor.process_image                    *)
(***************************************************************************)
\* images handed to process_image: a downloaded image, a rendered PDF page
Images == {Bytes(FileName("", "note1", ".jpg")),
           Jpeg(Bytes(FileName("", "notes", ".pdf")))}

\* line 75: base64.b64encode(image_bytes).decode('utf-8')
image_base64 == [b64 |-> ximage]

\* answers the model may give to the classification prompt
NoteTypes == {"PAPER", "WHITEBOARD", "IMAGE", "paper", "Whiteboard", "PAPER."}

\* A text is a sequence of lines. A line is a fence marker (three backticks,
\* with or without a language) or a line of content, which carries the prompt
\* whose answer it belongs to
FenceLine == [fence |-> TRUE, by |-> ""]

ContentLine(prompt) == [fence |-> FALSE, by |-> prompt]

\* the answers the model may give under a prompt: bare, or wrapped in a fenced
\* block
Answers(prompt) ==
    {<<ContentLine(prompt)>>, <<FenceLine, ContentLine(prompt), FenceLine>>}

\* str.upper() on the classification answers that occur
Upper(t) == CASE t = "paper" -> "PAPER"
              [] t = "Whiteboard" -> "WHITEBOARD"
              [] OTHER -> t

\* mutant: the classification is compared without regard to case
OcrPromptIgnoreCase(t) ==
    IF Upper(t) = "PAPER" THEN "ocrPaper"
    ELSE IF Upper(t) = "WHITEBOARD" THEN "ocrWhiteboard"
    ELSE "ocrImage"

\* lines 89-93: the OCR prompt for a classification
OcrPrompt(t) ==
    IF t = "PAPER" THEN "ocrPaper"
    ELSE IF t = "WHITEBOARD" THEN "ocrWhiteboard"
    ELSE "ocrImage"

\* line 104
NeedsRefine(t) == t = "PAPER" \/ t = "WHITEBOARD"

\* mutant: the section headers are inserted before the proofreading
NextStageHeaderFirst(stage, t) ==
    CASE stage = "classify" -> "ocr"
      [] stage = "ocr" -> IF NeedsRefine(t) THEN "header" ELSE "finish"
      [] stage = "header" -> "proofread"
      [] stage = "proofread" -> "finish"

\* lines 79-133: the statement that follows each model call
NextStage(stage, t) ==
    CASE stage = "classify" -> "ocr"
      [] stage = "ocr" -> IF NeedsRefine(t) THEN "proofread" ELSE "finish"
      [] stage = "proofread" -> "header"
      [] stage = "header" -> "finish"

\* post_processor.remove_markdown_code_blocks: a fenced block wrapped around
\* the text is stripped, a text without the wrapper passes unchanged
remove_markdown_code_blocks(text) ==
    IF Len(text) >= 2 /\ text[1].fence /\ text[Len(text)].fence
    THEN SubSeq(text, 2, Len(text) - 1)
    ELSE text

\* post_processor.add_datestamp: the date of the day is appended to the title
add_datestamp(title) == [title |-> title, datestamp |-> "2025-01-01"]

\* execute_image_completion / execute_text_completion called with a prompt and
\* an input, and what came of it
ModelCall(fn, prompt, input, res, output) ==
    xcalls' = Append(xcalls, [fn |-> fn, prompt |-> prompt, input |-> input,
                              res |-> res, output |-> output])

InitExtract ==
    /\ InitCache /\ IdleTokenHist /\ IdleSweep /\ IdleEnsure
    /\ IdleRerun /\ IdleList /\ IdleClient /\ IdleExtra
    /\ xpc = "classify"
    /\ ximage \in Images
    /\ note_type = "" /\ extracted_text = <<>> /\ xcalls = <<>> /\ xresult = <<>>

\* lines 79-85
Classify ==
    /\ xpc = "classify"
    /\ \/ \E t \in NoteTypes :
            /\ note_type' = t
            /\ ModelCall("image", "detectNoteType", image_base64, "ok", <<>>)
            /\ xpc' = NextStage("classify", t)
       \/ /\ ModelCall("image", "detectNoteType", image_base64, "raised", <<>>)
          /\ xpc' = "raised"
          /\ UNCHANGED note_type
    /\ UNCHANGED <<ximage, extracted_text, xresult, notExtractVars>>

\* lines 89-101
Ocr ==
    /\ xpc = "ocr"
    /\ \/ \E a \in Answers(OcrPrompt(note_type)) :
            /\ extracted_text' = a
            /\ ModelCall("image", OcrPrompt(note_type), image_base64, "ok", a)
            /\ xpc' = NextStage("ocr", note_type)
       \/ /\ ModelCall("image", OcrPrompt(note_type), image_base64, "raised", <<>>)
          /\ xpc' = "raised"
          /\ UNCHANGED extracted_text
    /\ UNCHANGED <<ximage, note_type, xresult, notExtractVars>>

\* execute_text_completion(extracted_text, prompt) assigned to extracted_text
Refine(stage, prompt) ==
    /\ \/ \E a \in Answers(prompt) :
            /\ extracted_text' = a
            /\ ModelCall("text", prompt, extracted_text, "ok", a)
            /\ xpc' = NextStage(stage, note_type)
       \/ /\ ModelCall("text", prompt, extracted_text, "raised", <<>>)
          /\ xpc' = "raised"
          /\ UNCHANGED extracted_text
    /\ UNCHANGED <<ximage, note_type, xresult, notExtractVars>>

\* lines 105-112
Proofread ==
    /\ xpc = "proofread"
    /\ Refine("proofread", "proofread")

\* lines 114-121
SectionHeader ==
    /\ xpc = "header"
    /\ Refine("header", "sectionHeader")

\* lines 123-140: sanitize, extract the title, stamp it, return
Finish ==
    /\ xpc = "finish"
    /\ extracted_text' = remove_markdown_code_blocks(extracted_text)
    /\ \/ \E a \in Answers("extractMainTitle") :
            /\ ModelCall("text", "extractMainTitle", extracted_text', "ok", a)
            /\ xresult' = [noteType |-> note_type,
                           extractedTitle |-> add_datestamp(a),
                           extractedText |-> extracted_text']
            /\ xpc' = "returned"
       \/ /\ ModelCall("text", "extractMainTitle", extracted_text', "raised", <<>>)
          /\ xpc' = "raised"
          /\ UNCHANGED xresult
    /\ UNCHANGED <<ximage, note_type, notExtractVars>>

NextExtract == Classify \/ Ocr \/ Proofread \/ SectionHeader \/ Finish

SpecExtract == InitExtract /\ [][NextExtract]_vars

(***************************************************************************)
(* SpecList: one call of OneDriveClient.list_files                         *)
(***************************************************************************)
MaxPages == 3         \* most pages a listing is served in

\* line 17
GRAPH_API_BASE == "https://graph.microsoft.com/v1.0"

\* A URL is kept in two pieces, url = base \o rest: base is the scheme, host
\* and version prefix ("" when the string has none), rest addresses a page
Url(base, page) == [base |-> base, page |-> page]

NoUrl == <<>>

\* the prefixes '@odata.nextLink' may carry: the one the request was sent to,
\* or another host of the provider
LinkBases == {GRAPH_API_BASE, "https://api.onedrive.com/v1.0"}

\* a page of the children collection: 'value', and the base of its
\* '@odata.nextLink' (the link of page k addresses page k + 1)
Page(value, base) == [value |-> value, next_base |-> base]

PageValues == {<<>>, <<Provider[1]>>, <<Provider[2], Provider[3]>>}

\* the ways a folder is served: k pages, the last one without a link
Paginations ==
    UNION {[1..k -> {Page(v, b) : v \in PageValues, b \in LinkBases}] : k \in 1..MaxPages}

\* line 104: url.replace(self.GRAPH_API_BASE, '')
Replace(url) == IF url.base = GRAPH_API_BASE THEN Url("", url.page) ELSE url

\* requests.get(url) prepares the request first: a URL without a scheme is
\* refused with MissingSchema and nothing is sent
HasScheme(url) == url.base # ""

\* statuses a page fetch may be answered with
ListStatuses == {200, 404, 503}

\* mutant: only server errors raise
RaisesForStatusServerOnly(status) == status >= 500 /\ status <= 599

\* response.raise_for_status(): HTTPError for 4xx and 5xx
RaisesForStatus(status) == status >= 400 /\ status <= 599

notListVars == <<tokenHist, sweepVars, ensureVars, rerunVars, extractVars, clientVars,
                 extraVars>>

\* lines 89-92
InitList ==
    /\ InitCache /\ IdleTokenHist /\ IdleSweep /\ IdleEnsure
    /\ IdleRerun /\ IdleExtract /\ IdleClient /\ IdleExtra
    /\ lpages \in Paginations
    /\ lpc = "loop"
    /\ lurl = Url(GRAPH_API_BASE, 1)
    /\ lfiles = <<>> /\ lgets = <<>> /\ lret = <<>>

\* _get_headers() of line 94: the cache after the call, the exchange succeeding
TokenOk ==
    \E answer \in SweepAnswers(now) :
        LET g == GetToken(access_token, token_expires_at, now, answer) IN
        /\ ~g.raised
        /\ access_token' = g.access_token
        /\ token_expires_at' = g.token_expires_at
        /\ now' = g.now

\* _get_headers() raising: the exchange was needed and failed
TokenRaises ==
    \E answer \in SweepAnswers(now) :
        LET g == GetToken(access_token, token_expires_at, now, answer) IN
        /\ g.raised
        /\ access_token' = g.access_token
        /\ token_expires_at' = g.token_expires_at
        /\ now' = g.now

\* line 94: the token exchange fails, list_files raises
ListAuthRaised ==
    /\ lpc = "loop"
    /\ TokenRaises
    /\ lpc' = "raised_auth"
    /\ UNCHANGED <<lpages, lurl, lfiles, lgets, lret, notListVars>>

\* line 94: requests.get refuses the URL
ListUrlRefused ==
    /\ lpc = "loop"
    /\ TokenOk
    /\ ~HasScheme(lurl)
    /\ lpc' = "raised_url"
    /\ UNCHANGED <<lpages, lurl, lfiles, lgets, lret, notListVars>>

\* lines 94-95: the page fetch is answered with an error status
ListFetchRaised ==
    /\ lpc = "loop"
    /\ TokenOk
    /\ HasScheme(lurl)
    /\ \E status \in {st \in ListStatuses : RaisesForStatus(st)} :
        lgets' = Append(lgets, [page |-> lurl.page, status |-> status])
    /\ lpc' = "raised_http"
    /\ UNCHANGED <<lpages, lurl, lfiles, lret, notListVars>>

\* lines 94-106: the page arrives; its entries are appended and its link, if
\* any, becomes the next url; without a link the loop ends and files is
\* returned
ListFetchOk ==
    /\ lpc = "loop"
    /\ TokenOk
    /\ HasScheme(lurl)
    /\ \E status \in {st \in ListStatuses : ~RaisesForStatus(st)} :
        lgets' = Append(lgets, [page |-> lurl.page, status |-> status])
    /\ lfiles' = lfiles \o lpages[lurl.page].value
    /\ IF lurl.page < Len(lpages)
       THEN /\ lurl' = Replace(Url(lpages[lurl.page].next_base, lurl.page + 1))
            /\ lpc' = "loop"
            /\ UNCHANGED lret
       ELSE /\ lurl' = NoUrl
            /\ lpc' = "returned"
            /\ lret' = lfiles'
    /\ UNCHANGED <<lpages, notListVars>>

NextList == ListAuthRaised \/ ListUrlRefused \/ ListFetchRaised \/ ListFetchOk

SpecList == InitList /\ [][NextList]_vars

(***************************************************************************)
(* SpecClient: calls of OneDriveClient.file_exists and download_file       *)
(***************************************************************************)
\* the remote paths asked for
ClientPaths == {Path(source_folder, FileName("", "note1", ".jpg")),
                Path(processed_folder, FileName("", "note1", ".jpg"))}

\* statuses the store may answer a GET of a path with, the path being there
\* or not: its regular answer, or one of the others a client has to expect
GetStatuses(present) ==
    (IF present THEN {200} ELSE {404}) \cup {204, 304, 401, 429, 500, 503}

\* the body of the answer to a content GET
Content(path, status) == [content_of |-> path.name, status |-> status]

notClientVars == <<tokenHist, sweepVars, ensureVars, rerunVars, extractVars, listVars,
                   extraVars>>

InitClient ==
    /\ InitCache /\ IdleTokenHist /\ IdleSweep /\ IdleEnsure
    /\ IdleRerun /\ IdleExtract /\ IdleList /\ IdleExtra
    /\ cstore \in SUBSET ClientPaths
    /\ last_req = NoCall

\* what a call did: the GETs it sent, the status of the answer (0: none
\* arrived), the class of the exception it raised ("none": it returned) and
\* the value it returned
Did(op, path, gets, status, raised, ret) ==
    last_req' = [kind |-> "call", op |-> op, path |-> path,
                 present |-> path \in cstore, gets |-> gets, status |-> status,
                 raised |-> raised, ret |-> ret]

\* lines 247-261: file_exists(file_path)
FileExistsCall ==
    /\ \E path \in ClientPaths :
        \/ /\ TokenRaises
           /\ Did("file_exists", path, 0, 0, "HTTPError", <<>>)
        \/ /\ TokenOk
           /\ \/ Did("file_exists", path, 1, 0, "ConnectionError", <<>>)
              \/ \E status \in GetStatuses(path \in cstore) :
                    Did("file_exists", path, 1, status, "none", FileExists(status))
    /\ UNCHANGED <<cstore, notClientVars>>

\* lines 108-124: download_file(file_path)
DownloadCall ==
    /\ \E path \in ClientPaths :
        \/ /\ TokenRaises
           /\ Did("download_file", path, 0, 0, "HTTPError", <<>>)
        \/ /\ TokenOk
           /\ \/ Did("download_file", path, 1, 0, "ConnectionError", <<>>)
              \/ \E status \in GetStatuses(path \in cstore) :
                    IF RaisesForStatus(status)
                    THEN Did("download_file", path, 1, status, "HTTPError", <<>>)
                    ELSE Did("download_file", path, 1, status, "none",
                             Content(path, status))
    /\ UNCHANGED <<cstore, notClientVars>>

NextClient == FileExistsCall \/ DownloadCall

SpecClient == InitClient /\ [][NextClient]_vars

(***************************************************************************)
(* SpecCompletion: calls of execute_image_completion and                   *)
(* execute_text_completion of image_processor_gh.py                        *)
(***************************************************************************)
MaxSent == 2          \* most requests to the model endpoint followed

\* Python's None as an argument
None == "<None>"

\* the `client` argument: None or an OpenAI client object
Clients == {None, "client"}

\* the `encoded_image` / `text` argument: None, an empty or a non-empty string
Inputs == {None, "", "aGVsbG8="}

\* the `system_prompt` argument: None, an empty or a non-empty string
SystemPrompts == {None, "", "prompt"}

\* message.content of the first choice of an answer
Contents == {"", "text"}

\* lines 26-34 / 79-87 without the last check
RequiredMissingButPrompt(client, input, system_prompt) ==
    client = None \/ input = None

\* lines 26-34 / 79-87: a required argument is None
RequiredMissing(client, input, system_prompt) ==
    client = None \/ input = None \/ system_prompt = None

\* lines 36-59: the request of execute_image_completion
ImageRequest(encoded_image, system_prompt) ==
    [model |-> "openai/gpt-4.1", temperature |-> "0",
     system |-> system_prompt, user |-> [image_url |-> encoded_image]]

\* lines 89-105: the request of execute_text_completion
TextRequest(text, system_prompt) ==
    [model |-> "openai/gpt-4.1", temperature |-> "0.3",
     system |-> system_prompt, user |-> [text |-> text]]

InitCompletion ==
    /\ InitCache /\ IdleTokenHist /\ IdleSweep /\ IdleEnsure
    /\ IdleRerun /\ IdleExtract /\ IdleList /\ IdleClient /\ IdlePath /\ IdleWrite
    /\ sent = <<>>
    /\ last_completion = NoCall

notCompletionVars == <<tokenVars, tokenHist, sweepVars, ensureVars, rerunVars,
                       extractVars, listVars, clientVars, pathVars, writeVars>>

\* what a call did: its arguments, the number of requests it sent, the class
\* of the exception it raised ("none": it returned) and the value it returned
Completed(fn, client, input, system_prompt, raised, ret) ==
    last_completion' = [kind |-> "call", fn |-> fn, client |-> client,
                        input |-> input, system_prompt |-> system_prompt,
                        requests |-> Len(sent') - Len(sent),
                        raised |-> raised, ret |-> ret]

\* a call with the given request for the case that the arguments are there:
\* the check of the arguments, then client.chat.completions.create
CompletionCall(fn, client, input, system_prompt, request) ==
    IF RequiredMissing(client, input, system_prompt)
    THEN /\ sent' = sent
         /\ Completed(fn, client, input, system_prompt, "ValueError", "")
    ELSE /\ sent' = Append(sent, request)
         /\ \/ Completed(fn, client, input, system_prompt, "APIError", "")
            \/ \E content \in Contents :
                  Completed(fn, client, input, system_prompt, "none", content)

\* lines 11-61: execute_image_completion(client, encoded_image, system_prompt)
ImageCompletion ==
    /\ Len(sent) < MaxSent
    /\ \E client \in Clients, encoded_image \in Inputs, system_prompt \in SystemPrompts :
          CompletionCall("execute_image_completion", client, encoded_image,
                         system_prompt, ImageRequest(encoded_image, system_prompt))
    /\ UNCHANGED notCompletionVars

\* lines 64-107: execute_text_completion(client, text, system_prompt)
TextCompletion ==
    /\ Len(sent) < MaxSent
    /\ \E client \in Clients, text \in Inputs, system_prompt \in SystemPrompts :
          CompletionCall("execute_text_completion", client, text,
                         system_prompt, TextRequest(text, system_prompt))
    /\ UNCHANGED notCompletionVars

NextCompletion == ImageCompletion \/ TextCompletion

SpecCompletion == InitCompletion /\ [][NextCompletion]_vars

(***************************************************************************)
(* SpecPath: calls of OneDriveClient._get_drive_path                       *)
(***************************************************************************)
MaxPathLen == 4       \* most characters of a folder_path argument

\* the characters of a path; a string is the sequence of its characters
PathChars == {"/", "a"}

\* the strings of at most n characters
RECURSIVE StringsUpTo(_)
StringsUpTo(n) ==
    IF n = 0 THEN {<<>>}
    ELSE LET shorter == StringsUpTo(n - 1)
         IN  shorter \cup {Append(str, c) : str \in shorter, c \in PathChars}

\* the folder_path arguments
FolderPaths == StringsUpTo(MaxPathLen)

\* line 72 without the strip
LStripNothing(str) == str

\* line 72: folder_path.lstrip('/'), every leading slash is removed
LStrip(str) ==
    LET leading == Cardinality({i \in 1..Len(str) : \A j \in 1..i : str[j] = "/"})
    IN  SubSeq(str, leading + 1, Len(str))

\* "/drive/root"
DriveRoot == <<"/", "d", "r", "i", "v", "e", "/", "r", "o", "o", "t">>

\* lines 69-77: _get_drive_path(folder_path)
_get_drive_path(folder_path) ==
    LET stripped == LStrip(folder_path)
    IN  IF stripped = <<>>
        THEN DriveRoot
        ELSE DriveRoot \o <<":", "/">> \o stripped \o <<":">>

InitPath ==
    /\ InitCache /\ IdleTokenHist /\ IdleSweep /\ IdleEnsure
    /\ IdleRerun /\ IdleExtract /\ IdleList /\ IdleClient /\ IdleCompletion
    /\ IdleWrite
    /\ last_path = NoCall
    /\ prev_path = NoCall

\* a call of _get_drive_path: the object's fields are neither read nor written
DrivePathCall ==
    /\ \E folder_path \in FolderPaths :
          last_path' = [kind |-> "call", arg |-> folder_path,
                        ret |-> _get_drive_path(folder_path)]
    /\ prev_path' = last_path
    /\ UNCHANGED <<tokenVars, tokenHist, sweepVars, ensureVars, rerunVars,
                   extractVars, listVars, clientVars, completionVars, writeVars>>

NextPath == DrivePathCall

SpecPath == InitPath /\ [][NextPath]_vars

(***************************************************************************)
(* SpecWrite: one call of OneDriveClient.upload_file or move_file, with    *)
(* the invocation of _ensure_folder_exists it makes                        *)
(***************************************************************************)
\* the call's invocation of _ensure_folder_exists
Ensuring == 1

\* file_path / dest_path: `slash` says whether it holds a '/', `folder` is
\* what stands before the last one ("", "x", "x/y", ...)
Targets ==
    {[kind |-> "path", slash |-> TRUE, folder |-> parts] : parts \in EnsurePaths}
        \cup {[kind |-> "path", slash |-> FALSE, folder |-> <<>>]}

\* lines 153 / 242: the request that writes
WriteMethod(op) == IF op = "upload_file" THEN "PUT" ELSE "PATCH"

\* statuses the store may answer the PUT / PATCH with
WriteStatuses == {200, 201, 404, 409, 503}

InitWrite ==
    /\ InitCache /\ IdleTokenHist /\ IdleSweep
    /\ IdleRerun /\ IdleExtract /\ IdleList /\ IdleClient /\ IdleCompletion /\ IdlePath
    /\ folders \in {{Folder(SubSeq(Segments, 1, j), 0) : j \in 1..k} : k \in 0..MaxDepth}
    /\ folders0 = folders
    /\ epath = [i \in Invocations |-> <<>>]
    /\ epc = [i \in Invocations |-> "none"]
    /\ ecur = [i \in Invocations |-> 0]
    /\ ereqs = [i \in Invocations |-> <<>>]
    /\ etransient = FALSE
    /\ overlap = FALSE
    /\ wpc = "idle" /\ wop = "" /\ wtarget = NoCall /\ wsent = <<>>

\* lines 137-143 / 217-224: the path is split at its last '/'; with a '/'
\* in it, _ensure_folder_exists is called with what stands before
WriteCall ==
    /\ wpc = "idle"
    /\ \E op \in {"upload_file", "move_file"}, target \in Targets :
        /\ wop' = op
        /\ wtarget' = target
        /\ IF target.slash
           THEN /\ wpc' = "ensure"
                /\ epath' = [epath EXCEPT ![Ensuring] = target.folder]
                /\ epc' = [epc EXCEPT ![Ensuring] = "idle"]
           ELSE /\ wpc' = "send"
                /\ UNCHANGED <<epath, epc>>
    /\ UNCHANGED <<tokenVars, tokenHist, sweepVars, rerunVars, extractVars, listVars,
                   clientVars, completionVars, pathVars, folders, ecur, ereqs,
                   etransient, folders0, overlap, wsent>>

\* mutant: the request goes out however _ensure_folder_exists ended
SendAfterRaise == wpc = "send" \/ (wpc = "ensure" /\ Finished(Ensuring))

\* lines 141-153 / 221-242: the statements after the call of
\* _ensure_folder_exists run when it has returned
SendAllowed == wpc = "send" \/ (wpc = "ensure" /\ epc[Ensuring] = "returned")

\* lines 145-154 / 226-243: the PUT of the content / the PATCH of the
\* metadata, then raise_for_status
WriteSend ==
    /\ SendAllowed
    /\ \E status \in WriteStatuses :
        /\ wsent' = Append(wsent, [method |-> WriteMethod(wop), target |-> wtarget,
                                   status |-> status,
                                   after |-> Len(ereqs[Ensuring])])
        /\ wpc' = IF RaisesForStatus(status) THEN "raised" ELSE "returned"
    /\ UNCHANGED <<tokenVars, tokenHist, sweepVars, ensureVars, rerunVars, extractVars,
                   listVars, clientVars, completionVars, pathVars, wop, wtarget>>

\* lines 141 / 221: the exception of _ensure_folder_exists leaves the call
WriteAbort ==
    /\ wpc = "ensure"
    /\ epc[Ensuring] = "raised"
    /\ wpc' = "raised"
    /\ UNCHANGED <<tokenVars, tokenHist, sweepVars, ensureVars, rerunVars, extractVars,
                   listVars, clientVars, completionVars, pathVars, wop, wtarget, wsent>>

NextWrite ==
    \/ WriteCall
    \/ EnsureStart(Ensuring)
    \/ EnsureCheck(Ensuring)
    \/ EnsureWalk(Ensuring)
    \/ EnsureCreate(Ensuring)
    \/ WriteSend
    \/ WriteAbort

SpecWrite == InitWrite /\ [][NextWrite]_vars

(***************************************************************************)
(* Properties of the sweep                                                 *)
(***************************************************************************)
\* an entry passes the filters of lines 83-86 and 98-103
IsEligible(e) ==
    /\ ~e.folder
    /\ e.name.dir # "processed/"
    /\ Lower(e.name.suffix) \in {".jpg", ".jpeg", ".png", ".gif", ".bmp", ".tiff", ".pdf"}

EligibleNames == {e.name : e \in {f \in {listing[i] : i \in 1..Len(listing)} : IsEligible(f)}}

ProbeIdx == {i \in 1..Len(calls) : calls[i].op = "file_exists"}

\* the probes of the file called n
ProbesOf(n) == {i \in ProbeIdx : calls[i].path = Path("Handwritten Notes/processed", n)}

\* the calls made for one file: from its probe at i up to the next file's probe
SegEnd(i) ==
    LET later == {j \in ProbeIdx : j > i}
    IN  IF later = {} THEN Len(calls)
        ELSE (CHOOSE j \in later : \A k \in later : j <= k) - 1

Seg(i) == SubSeq(calls, i, SegEnd(i))

IsRemoteStep(c) == c.op \in {"download_file", "upload_file", "move_file"}

RemoteSteps(i) == SelectSeq(Seg(i), IsRemoteStep)

HasOk(s, op) == \E k \in 1..Len(s) : s[k].op = op /\ s[k].res = "ok"

\* download, extraction, both uploads and the move of n all succeeded
FullyProcessed(n) ==
    \E i \in ProbesOf(n) :
        LET s == Seg(i) IN
        /\ \E k \in 1..Len(s) : /\ s[k].op = "download_file" /\ s[k].res = "ok"
                                /\ s[k].path = Path("Handwritten Notes", n)
        /\ HasOk(s, "process_image")
        /\ \E k \in 1..Len(s) : /\ s[k].op = "upload_file" /\ s[k].res = "ok"
                                /\ s[k].path.name.suffix = ".md"
        /\ \E k \in 1..Len(s) : /\ s[k].op = "upload_file" /\ s[k].res = "ok"
                                /\ s[k].path.name.suffix # ".md"
        /\ \E k \in 1..Len(s) : /\ s[k].op = "move_file" /\ s[k].res = "ok"
                                /\ s[k].path[1] = Path("Handwritten Notes", n)

\* every eligible file of the listing was attempted: probed, and downloaded
\* unless the probe said it was already processed
AllAttempted ==
    \A n \in EligibleNames :
        \E i \in ProbesOf(n) :
            \/ calls[i].res = "true"
            \/ /\ i < Len(calls)
               /\ calls[i + 1].op = "download_file"
               /\ calls[i + 1].path = Path("Handwritten Notes", n)

\* C1 (sweep isolation): a call raising for a file (download, PDF render,
\* extraction, upload, move) never ends the run in sys.exit(1), and when the
\* run is over every eligible file of the listing has been attempted,
\* whatever failed before it.
C1_SweepIsolation ==
    /\ (\E i \in 2..Len(calls) : calls[i].res = "raised") => pc # "exit1"
    /\ (pc = "done" /\ listing # <<>>) => AllAttempted /\ reported # NoReport

\* three eligible files, the second raises during download, the first and
\* the third are processed and counted
C1_Witness ==
    /\ pc = "done" /\ reported = <<2>> /\ Cardinality(EligibleNames) = 3
    /\ \E i, j, k \in 1..Len(calls) :
        /\ i < j /\ j < k
        /\ calls[i].op = "move_file" /\ calls[i].res = "ok"
        /\ calls[j].op = "download_file" /\ calls[j].res = "raised"
        /\ calls[k].op = "move_file" /\ calls[k].res = "ok"

\* C2 (processed count): the running count, and the count reported at the end,
\* equal the number of listed files whose download, extraction, markdown
\* upload, image upload and move all succeeded in this sweep.
C2_CountIsFullyProcessed ==
    /\ pc \notin {"list", "exit1"} =>
          processed_count = Cardinality({n \in Names(listing) : FullyProcessed(n)})
    /\ reported # NoReport =>
          /\ pc = "done"
          /\ reported = <<Cardinality({n \in Names(listing) : FullyProcessed(n)})>>

\* one file skipped as already processed, one failing at the move, one counted
C2_Witness ==
    /\ pc = "done" /\ reported = <<1>> /\ Len(listing) = 3
    /\ \E i \in ProbeIdx : calls[i].res = "true"
    /\ \E i \in 1..Len(calls) : calls[i].op = "move_file" /\ calls[i].res = "raised"

NumOkMoves == Cardinality({i \in 1..Len(calls) : calls[i].op = "move_file" /\ calls[i].res = "ok"})

\* C3 (already-processed skip): when the probe of a file returns true, no
\* download, upload or move call is made for that file, and it is not counted
\* (the count stays the number of successful moves, none of them this file's).
C3_AlreadyProcessedSkip ==
    \A i \in ProbeIdx :
        calls[i].res = "true" =>
            /\ SegEnd(i) = i
            /\ \A j \in 1..Len(calls) :
                /\ calls[j].op = "download_file" => calls[j].path.name # calls[i].path.name
                /\ calls[j].op = "move_file" => calls[j].path[1].name # calls[i].path.name
            /\ pc \notin {"list", "exit1"} => processed_count = NumOkMoves

\* a file was skipped as already processed and a later file went through
C3_Witness ==
    /\ pc = "done"
    /\ \E i \in ProbeIdx : \E j \in 1..Len(calls) :
        /\ calls[i].res = "true" /\ i < j
        /\ calls[j].op = "move_file" /\ calls[j].res = "ok"

\* the extension under which the image of source name n is uploaded
OutExt(n) == IF Lower(n.suffix) = ".pdf" THEN ".jpg" ELSE Lower(n.suffix)

\* C4 (per-file step order): the remote calls made for a file are, in this
\* order, download, markdown upload to <dest>/<title>.md, image upload to
\* <dest>/<title><ext>, move to <processed>/<name>; each is made only after
\* the one before it succeeded; no remote call is made outside a file's turn.
C4_StepOrder ==
    /\ \A j \in 2..Len(calls) : \E i \in ProbeIdx : i <= j
    /\ \A i \in ProbeIdx :
        LET n == calls[i].path.name
            R == RemoteSteps(i)
        IN  /\ Len(R) <= 4
            /\ Len(R) >= 1 =>
                  R[1].op = "download_file" /\ R[1].path = Path("Handwritten Notes", n)
            /\ Len(R) >= 2 =>
                  /\ R[1].res = "ok"
                  /\ R[2].op = "upload_file"
                  /\ R[2].path.folder = "second-brain/second-brain/_scans"
                  /\ R[2].path.name.suffix = ".md"
            /\ Len(R) >= 3 =>
                  /\ R[2].res = "ok"
                  /\ R[3].op = "upload_file"
                  /\ R[3].path = Path("second-brain/second-brain/_scans",
                                      FileName("", R[2].path.name.stem, OutExt(n)))
            /\ Len(R) >= 4 =>
                  /\ R[3].res = "ok"
                  /\ R[4].op = "move_file"
                  /\ R[4].path = <<Path("Handwritten Notes", n),
                                   Path("Handwritten Notes/processed", n)>>

\* a PDF went through all four remote steps
C4_Witness ==
    \E i \in ProbeIdx :
        /\ calls[i].path.name.suffix = ".pdf"
        /\ Len(RemoteSteps(i)) = 4
        /\ RemoteSteps(i)[4].res = "ok"

\* C5 (listing failure is fatal): when list_files raises, the run ends in
\* sys.exit(1) and nothing was probed, downloaded, uploaded or moved.
C5_ListingFailureFatal ==
    (calls # <<>> /\ calls[1].res = "raised") =>
        /\ pc = "exit1"
        /\ Len(calls) = 1
        /\ reported = NoReport
        /\ store_dest = {}
        /\ store_source = Names(listing)

C5_Witness == pc = "exit1" /\ Len(listing) = 3 /\ calls[1].res = "raised"

\* C6 as claimed: once a token exchange has failed during any remote call,
\* the run ends with a non-zero exit and no later call is made.
C6_AuthFailureAlwaysFatal ==
    (auth_fail_at # 0 /\ pc \in {"done", "exit1"}) =>
        pc = "exit1" /\ Len(calls) = auth_fail_at

\* C6 (amended): a token-exchange failure during the listing is fatal; during
\* a per-file call it is not: a failing probe is followed by the download of
\* the same file, a failing download, upload or move is caught at the file
\* boundary, the run does not exit non-zero and still attempts every eligible
\* file.
C6_AuthFailureFatalOnlyInListing ==
    /\ auth_fail_at = 1 => pc = "exit1" /\ Len(calls) = 1
    /\ auth_fail_at > 1 =>
        /\ pc # "exit1"
        /\ auth_fail_at <= Len(calls) =>
            /\ calls[auth_fail_at].res = "raised"
            /\ calls[auth_fail_at].op \in
                  {"file_exists", "download_file", "upload_file", "move_file"}
            /\ (calls[auth_fail_at].op = "file_exists" /\ auth_fail_at < Len(calls)) =>
                  /\ calls[auth_fail_at + 1].op = "download_file"
                  /\ calls[auth_fail_at + 1].path.name = calls[auth_fail_at].path.name
        /\ pc = "done" => AllAttempted /\ reported # NoReport

\* a token exchange failed during a download and a later file was processed
\* and counted
C6_Witness ==
    /\ pc = "done" /\ auth_fail_at > 1 /\ reported # NoReport
    /\ calls[auth_fail_at].op = "download_file"
    /\ \E j \in 1..Len(calls) :
        j > auth_fail_at /\ calls[j].op = "move_file" /\ calls[j].res = "ok"

(***************************************************************************)
(* SpecRerun: main() is run, and then run again on what the first run left *)
(***************************************************************************)
MaxRerunFiles == 2    \* longest listing of the first run

\* the files for which this run uploaded the markdown (and the image) and
\* then failed to move the original, with the paths it wrote
HalfDone ==
    {[name |-> calls[i].path.name,
      md |-> RemoteSteps(i)[2].path,
      image |-> RemoteSteps(i)[3].path] :
        i \in {j \in ProbeIdx : /\ Len(RemoteSteps(j)) = 4
                                /\ RemoteSteps(j)[4].res = "raised"}}

InSource(e) == e.name \in store_source

InitRerun == InitSweep /\ Len(listing) <= MaxRerunFiles

\* The scheduled workflow starts main() a second time, the same day or the next: a
\* new process with a new OneDriveClient (empty credential cache; the clock
\* is counted from the start of the run) lists what the source folder holds
\* now. The remote store is as the previous run left it.
Rerun ==
    /\ pc \in {"done", "exit1"}
    /\ run = 1
    /\ run' = run + 1
    /\ day' \in {day, day + 1}
    /\ prev' = HalfDone
    /\ access_token' = NoToken /\ token_expires_at' = 0 /\ now' = 0
    /\ pc' = "list"
    /\ listing' = SelectSeq(listing, InSource)
    /\ files' = <<>> /\ idx' = 0 /\ file_ext' = "" /\ image_bytes' = "" /\ result' = ""
    /\ processed_count' = 0 /\ reported' = NoReport /\ calls' = <<>> /\ auth_fail_at' = 0
    /\ UNCHANGED <<store_source, store_processed, store_dest, tokenHist, ensureVars,
                   extractVars, listVars, clientVars, extraVars>>

\* both runs are short: a token obtained in a run does not age within it
NextRerun ==
    \/ ListFilesRaised \/ ListFilesOk \/ Report \/ SkipUnsupported \/ BeginFile
    \/ ProbeAnswered \/ ProbeRaised \/ Download \/ ConvertPdf \/ Extract
    \/ UploadMarkdown \/ UploadImage \/ MoveFile \/ Rerun

SpecRerun == InitRerun /\ [][NextRerun]_vars

(***************************************************************************)
(* Further properties of the sweep (SpecSweep) and of its rerun (SpecRerun)*)
(***************************************************************************)
\* C15 (probe failure is non-blocking): when the already-processed probe of a
\* file raises, the file is not skipped: the sweep goes on to download that
\* same file, and the next call it makes is that download.
C15_ProbeFailureNonBlocking ==
    \A i \in ProbeIdx :
        calls[i].res = "raised" =>
            /\ i = Len(calls) =>
                  /\ pc = "download"
                  /\ files[idx].name = calls[i].path.name
            /\ i < Len(calls) =>
                  /\ calls[i + 1].op = "download_file"
                  /\ calls[i + 1].path = Path("Handwritten Notes", calls[i].path.name)

\* the probe of a file raised on the network (the token was fine), and the
\* file went through to its move
C15_Witness ==
    /\ auth_fail_at = 0
    /\ \E i \in ProbeIdx :
        /\ calls[i].res = "raised"
        /\ HasOk(Seg(i), "move_file")

\* the run is over: its log holds every call it made
Over == pc \in {"done", "exit1"}

\* position of the entry called n in the listing
Pos(n) == CHOOSE k \in 1..Len(listing) : listing[k].name = n

\* the image main() hands to the pipeline for the source file called n
ImageOf(n) == IF Lower(n.suffix) = ".pdf" THEN [first_page_of |-> [content_of |-> n]]
                                          ELSE [content_of |-> n]

\* the call c is made for the source file called n
Concerns(c, n) ==
    CASE c.op \in {"file_exists", "download_file"} -> c.path.name = n
      [] c.op = "convert_pdf_to_image" -> c.path = [content_of |-> n]
      [] c.op = "process_image" -> c.path = ImageOf(n)
      [] c.op = "upload_file" -> c.path.name.stem \in Titles(ImageOf(n), day)
      [] c.op = "move_file" -> c.path[1].name = n /\ c.path[2].name = n
      [] OTHER -> FALSE

\* C16 (ordering guarantee): the files are taken in listing order, one at a
\* time and never twice: the probes follow strictly increasing listing
\* positions, and every call made between the probe of one file and the probe
\* of the next (remote or model call, successful or caught) is made for the
\* former. While a file is being worked on, it is the one probed last.
C16_ListingOrder ==
    /\ Over =>
        /\ \A i, j \in ProbeIdx :
            i < j => Pos(calls[i].path.name) < Pos(calls[j].path.name)
        /\ \A i \in ProbeIdx :
            LET s == Seg(i)
                n == calls[i].path.name
            IN  \A k \in 1..Len(s) : Concerns(s[k], n)
        /\ Len(calls) >= 2 => calls[2].op = "file_exists"
    /\ (pc \in {"download", "convert", "extract", "upload_md", "upload_img", "move"}) =>
          /\ ProbeIdx # {}
          /\ \A i \in ProbeIdx : Pos(calls[i].path.name) <= Pos(files[idx].name)
          /\ \E i \in ProbeIdx : calls[i].path.name = files[idx].name

\* three files in listing order, the second failing at an upload
C16_Witness ==
    /\ pc = "done" /\ Cardinality(ProbeIdx) = 3
    /\ \E i, j, k \in ProbeIdx :
        /\ i < j /\ j < k
        /\ HasOk(Seg(i), "move_file")
        /\ \E m \in 1..Len(Seg(j)) : Seg(j)[m].op = "upload_file" /\ Seg(j)[m].res = "raised"
        /\ HasOk(Seg(k), "move_file")

\* the file the latest probe was made for
LastProbed == calls[CHOOSE i \in ProbeIdx : \A j \in ProbeIdx : j <= i].path.name

\* C17 (PDF handling): a .pdf source is rendered to a JPEG before extraction;
\* the rendered bytes are what is extracted and what is stored under
\* <dest_folder>/<title>.jpg; the original is moved to the processed folder
\* under its own .pdf name. For every other supported extension no rendering
\* takes place, the downloaded bytes are extracted and stored, and the image
\* keeps the extension of the source (as main() computes it, in lower case).
C17_PdfHandling ==
    /\ Over => \A i \in ProbeIdx :
        LET n == calls[i].path.name
            s == Seg(i)
            R == RemoteSteps(i)
            pdf == Lower(n.suffix) = ".pdf"
        IN  /\ \A k \in 1..Len(s) :
                /\ s[k].op = "convert_pdf_to_image" =>
                      pdf /\ s[k].path = [content_of |-> n]
                /\ s[k].op = "process_image" =>
                      /\ s[k].path = (IF pdf THEN [first_page_of |-> [content_of |-> n]]
                                             ELSE [content_of |-> n])
                      /\ pdf => /\ s[k - 1].op = "convert_pdf_to_image"
                                /\ s[k - 1].res = "ok"
                      /\ ~pdf => s[k - 1].op = "download_file"
            /\ Len(R) >= 3 =>
                  R[3].path.name.suffix = (IF pdf THEN ".jpg" ELSE Lower(n.suffix))
            /\ Len(R) >= 4 =>
                  R[4].path = <<Path("Handwritten Notes", n),
                                Path("Handwritten Notes/processed", n)>>
    /\ (calls # <<>> /\ calls[Len(calls)].op = "upload_file"
                     /\ calls[Len(calls)].res = "ok"
                     /\ calls[Len(calls)].path.name.suffix # ".md") =>
          [path |-> calls[Len(calls)].path,
           content |-> IF Lower(LastProbed.suffix) = ".pdf"
                       THEN [first_page_of |-> [content_of |-> LastProbed]]
                       ELSE [content_of |-> LastProbed]] \in store_dest
    /\ (calls # <<>> /\ calls[Len(calls)].op = "move_file"
                     /\ calls[Len(calls)].res = "ok") =>
          LastProbed \in store_processed /\ LastProbed \notin store_source

\* notes.pdf and scan.PNG both went through: the rendering is stored as .jpg,
\* the PDF sits in the processed folder
C17_Witness ==
    /\ pc = "done" /\ reported = <<2>>
    /\ FileName("", "notes", ".pdf") \in store_processed
    /\ FileName("", "scan", ".PNG") \in store_processed
    /\ \E e \in store_dest :
        /\ e.path.name.suffix = ".jpg"
        /\ e.content = [first_page_of |-> [content_of |-> FileName("", "notes", ".pdf")]]
    /\ \E e \in store_dest :
        /\ e.path.name.suffix = ".png"
        /\ e.content = [content_of |-> FileName("", "scan", ".PNG")]

IneligibleNames == Names(listing) \ EligibleNames

\* C18 (eligibility filter): only entries that are not folders, whose name
\* does not begin with "processed/" and whose extension (lower-cased, as main()
\* compares it) is one of jpg, jpeg, png, gif, bmp, tiff, pdf are probed,
\* downloaded or moved; every call after the listing is made in the turn of
\* such an entry; an entry failing a condition stays in the source folder.
C18_EligibilityFilter ==
    /\ Over => \A k \in 1..Len(calls) :
        /\ calls[k].op \in {"file_exists", "download_file"} =>
              calls[k].path.name \in EligibleNames
        /\ calls[k].op = "move_file" => calls[k].path[1].name \in EligibleNames
        /\ calls[k].op \in {"convert_pdf_to_image", "process_image", "upload_file"} =>
              \E n \in EligibleNames : Concerns(calls[k], n)
        /\ k > 1 => calls[k].op # "list_files"
    /\ IneligibleNames \subseteq store_source
    /\ IneligibleNames \cap store_processed = {}

\* a folder with an image extension, a file under processed/ and a text file
\* were listed: the run ended without a call for any of them
C18_Witness ==
    /\ pc = "done" /\ Len(listing) = 3 /\ Len(calls) = 1
    /\ FileName("", "album", ".png") \in Names(listing)
    /\ FileName("processed/", "old", ".jpg") \in Names(listing)
    /\ FileName("", "readme", ".txt") \in Names(listing)

DestPaths == {e.path : e \in store_dest}

\* the original called n was moved by the run in progress
MovedNow(n) ==
    \E k \in 1..Len(calls) :
        calls[k].op = "move_file" /\ calls[k].res = "ok" /\ calls[k].path[1].name = n

\* the run in progress probed the file called n and, unless the probe found it
\* processed, went on to download it
Attempted(n) ==
    \E i \in ProbesOf(n) :
        \/ calls[i].res = "true"
        \/ i < Len(calls) /\ calls[i + 1].op = "download_file"

\* what holds of a run that uploaded for a file and then failed to move it:
\* the outputs stay in the destination folder, the original stays in the
\* source folder, the file is not in the count
NoRollback ==
    /\ (pc = "done" /\ reported # NoReport) =>
        /\ \A h \in HalfDone :
            /\ h.name \in store_source
            /\ {h.md, h.image} \subseteq DestPaths
        /\ reported[1] <= Cardinality(EligibleNames) - Cardinality(HalfDone)
    /\ run > 1 => \A h \in prev :
        /\ {h.md, h.image} \subseteq DestPaths
        /\ h.name \in store_source \/ MovedNow(h.name)
        /\ pc # "list" => h.name \in Names(listing)

\* C19 as claimed: a file whose markdown was uploaded and whose move failed is
\* never skipped as already processed by the next run, which processes it
\* again and uploads to the same two destination paths.
C19_ReprocessedToSamePaths ==
    /\ NoRollback
    /\ run > 1 => \A h \in prev :
        /\ \A i \in ProbesOf(h.name) :
            /\ calls[i].res # "true"
            /\ Len(RemoteSteps(i)) >= 2 => RemoteSteps(i)[2].path = h.md
            /\ Len(RemoteSteps(i)) >= 3 => RemoteSteps(i)[3].path = h.image
        /\ (pc = "done" /\ reported # NoReport) =>
              \E i \in ProbesOf(h.name) :
                  i < Len(calls) /\ calls[i + 1].op = "download_file"

\* C19 (amended): the outputs are not rolled back, the file is not counted and
\* stays in the source folder; the next run lists it again and, unless an
\* entry of the same name sits in the processed folder, its probe does not
\* answer true and the file is downloaded again. What that run uploads goes
\* to <dest_folder>/<title>.md and <dest_folder>/<title><ext> for the title
\* extracted in that run: the paths of the previous run when the title, with
\* its datestamp, is the same, and then the content is overwritten by path.
C19_ReprocessedUnlessInProcessed ==
    /\ NoRollback
    /\ \A p, q \in store_dest : p.path = q.path => p = q
    /\ run > 1 => \A h \in prev :
        /\ \A i \in ProbesOf(h.name) :
            LET R == RemoteSteps(i) IN
            /\ (h.name \notin store_processed \/ MovedNow(h.name)) => calls[i].res # "true"
            /\ Len(R) >= 2 =>
                  /\ R[2].path.folder = "second-brain/second-brain/_scans"
                  /\ R[2].path.name.stem \in Titles(ImageOf(h.name), day)
                  /\ R[2].path.name.suffix = ".md"
                  /\ h.md.name.stem \in Titles(ImageOf(h.name), day) => R[2].path = h.md
            /\ Len(R) >= 3 =>
                  /\ R[3].path = Path("second-brain/second-brain/_scans",
                                      FileName("", R[2].path.name.stem, OutExt(h.name)))
                  /\ h.md.name.stem \in Titles(ImageOf(h.name), day) => R[3].path = h.image
        /\ (pc = "done" /\ reported # NoReport) => Attempted(h.name)

\* the second run, on the same day, took the file the first run had failed to
\* move through all its steps, writing to the paths the first run wrote
C19_Witness ==
    /\ run = 2 /\ pc = "done" /\ reported = <<1>>
    /\ \E h \in prev :
        /\ FullyProcessed(h.name)
        /\ \E i \in ProbesOf(h.name) :
            /\ RemoteSteps(i)[2].path = h.md
            /\ RemoteSteps(i)[3].path = h.image

(***************************************************************************)
(* Properties of the credential cache (SpecToken)                          *)
(***************************************************************************)
\* expires_in of the body of the latest exchange, 3600 when it is left out
LastExpiresIn ==
    IF "expires_in" \in DOMAIN last_call.body THEN last_call.body["expires_in"] ELSE 3600

\* C7 (token refresh counting): a call on an empty cache sends exactly one
\* POST; a call made while now < expires_at - 300 sends none and returns the
\* cached token, leaving the cache alone; a call made after expiry sends
\* exactly one POST and, when the exchange succeeds, replaces the cached token
\* and sets expires_at = now + expires_in (3600 when absent).
C7_TokenRefreshCounting ==
    last_call.kind = "call" =>
        /\ last_call.before_token = NoToken => last_call.posts = 1
        /\ (/\ last_call.before_token # NoToken
            /\ last_call.started < last_call.before_expires_at - 300) =>
                /\ last_call.posts = 0
                /\ ~last_call.raised
                /\ last_call.ret = last_call.before_token
                /\ access_token = last_call.before_token
                /\ token_expires_at = last_call.before_expires_at
        /\ (/\ last_call.before_token # NoToken
            /\ last_call.started >= last_call.before_expires_at) =>
                /\ last_call.posts = 1
                /\ ~last_call.raised =>
                    /\ access_token = last_call.body["access_token"]
                    /\ access_token # last_call.before_token
                    /\ last_call.ret = access_token
                    /\ token_expires_at = last_call.at + LastExpiresIn

\* the second exchange of a run: a successful call after the first token expired,
\* the endpoint leaving expires_in out
C7_Witness ==
    /\ last_call.kind = "call" /\ exchanges = 2
    /\ last_call.before_token = <<"tok", 0>>
    /\ last_call.started >= last_call.before_expires_at
    /\ ~last_call.raised
    /\ "expires_in" \notin DOMAIN last_call.body
    /\ token_expires_at = last_call.at + 3600

\* C8 as claimed: whatever expires_in the endpoint answers with, a token is
\* never returned (used) at a time now >= expires_at - 300.
C8_NeverUsedInsideBuffer ==
    (last_call.kind = "call" /\ ~last_call.raised) =>
        last_call.at < token_expires_at - 300

\* C8 (amended): a token returned from the cache without an exchange is never
\* returned at now >= expires_at - 300, and neither is a fresh token whose
\* expires_in exceeds 300; a fresh token with expires_in <= 300 is returned
\* inside the buffer.
C8_CachedTokenNeverUsedInsideBuffer ==
    (last_call.kind = "call" /\ ~last_call.raised) =>
        /\ (last_call.posts = 0 \/ LastExpiresIn > 300) =>
              last_call.at < token_expires_at - 300
        /\ (last_call.posts = 1 /\ LastExpiresIn <= 300) =>
              last_call.at >= token_expires_at - 300

\* a token that lives 3600 s is returned from the cache 3000 s after its issue,
\* 300 s before the buffer starts
C8_Witness ==
    /\ last_call.kind = "call" /\ last_call.posts = 0
    /\ last_call.at = 3000 /\ token_expires_at = 3600

(***************************************************************************)
(* Properties of folder creation (SpecEnsure)                              *)
(***************************************************************************)
\* the folders "x", "x/y", ... of a path, under the names asked for
PrefixFolders(parts) == {[path |-> SubSeq(parts, 1, k), copy |-> 0] : k \in 1..Len(parts)}

Is2xx(status) == status >= 200 /\ status <= 299

\* C9 (idempotent in sequence): on a store holding none of the prefixes and
\* answering without transient errors, the first invocation sends exactly one
\* create request per segment, root to leaf, each successful and making that
\* prefix; a second invocation for the same path, started after the first
\* returned, does not raise, makes no successful creation and leaves the
\* folders of the store as the first left them.
C9_SequentialEnsureIdempotent ==
    (/\ ~overlap /\ ~etransient
     /\ epath[1] = epath[2] /\ epath[1] # <<>>
     /\ folders0 = {}) =>
        /\ epc[1] # "raised"
        /\ epc[1] = "returned" =>
            /\ Len(ereqs[1]) = Len(epath[1])
            /\ \A k \in 1..Len(ereqs[1]) :
                /\ ereqs[1][k].path = SubSeq(epath[1], 1, k)
                /\ Is2xx(ereqs[1][k].status)
                /\ ereqs[1][k].made = {[path |-> SubSeq(epath[1], 1, k), copy |-> 0]}
        /\ epc[2] # "idle" =>
            /\ epc[2] # "raised"
            /\ \A k \in 1..Len(ereqs[2]) : ~Is2xx(ereqs[2][k].status)
            /\ folders = PrefixFolders(epath[1])

\* "x/y/z" ensured twice in sequence on an empty store
C9_Witness ==
    /\ ~overlap /\ ~etransient /\ folders0 = {}
    /\ epath[1] = <<"x", "y", "z">> /\ epath[2] = epath[1]
    /\ epc[1] = "returned" /\ epc[2] = "returned"
    /\ Len(ereqs[1]) = 3

\* C10 (safe under concurrent invocation): two invocations for the same path,
\* interleaved in any order on a store answering without transient errors:
\* neither fails, and afterwards every segment exists exactly once, with no
\* duplicate under a changed name.
C10_ConcurrentEnsureSafe ==
    (/\ epath[1] = epath[2] /\ ~etransient
     /\ Finished(1) /\ Finished(2)) =>
        /\ epc[1] = "returned" /\ epc[2] = "returned"
        /\ PrefixFolders(epath[1]) \subseteq folders
        /\ \A f \in folders : f.copy = 0

(***************************************************************************)
(* Properties of the extraction pipeline (SpecExtract)                     *)
(***************************************************************************)
OcrCalls ==
    {k \in 1..Len(xcalls) : xcalls[k].prompt \in {"ocrImage", "ocrPaper", "ocrWhiteboard"}}

RefineCalls ==
    {k \in 1..Len(xcalls) : xcalls[k].prompt \in {"proofread", "sectionHeader"}}

\* C11 (extraction branch coverage): whatever string the classification
\* returns, the OCR call uses the paper prompt exactly when it is "PAPER", the
\* whiteboard prompt exactly when it is "WHITEBOARD" and the default prompt
\* otherwise; a call that returns has made both refinement calls (proofread
\* and section header, once each) in the first two cases and none otherwise.
C11_BranchCoverage ==
    /\ Cardinality(OcrCalls) <= 1
    /\ \A k \in OcrCalls :
        /\ xcalls[k].fn = "image"
        /\ xcalls[k].prompt = (CASE note_type = "PAPER" -> "ocrPaper"
                                 [] note_type = "WHITEBOARD" -> "ocrWhiteboard"
                                 [] OTHER -> "ocrImage")
    /\ note_type \notin {"PAPER", "WHITEBOARD"} => RefineCalls = {}
    /\ xpc = "returned" =>
        /\ Cardinality(OcrCalls) = 1
        /\ note_type \in {"PAPER", "WHITEBOARD"} =>
            /\ Cardinality(RefineCalls) = 2
            /\ \E j, k \in RefineCalls :
                /\ xcalls[j].prompt = "proofread" /\ xcalls[j].res = "ok"
                /\ xcalls[k].prompt = "sectionHeader" /\ xcalls[k].res = "ok"

\* the classification answered "paper": default OCR prompt, no refinement
C11_Witness ==
    /\ xpc = "returned" /\ note_type = "paper"
    /\ Len(xcalls) = 3
    /\ xcalls[2].prompt = "ocrImage"

StageOf(prompt) ==
    IF prompt \in {"ocrImage", "ocrPaper", "ocrWhiteboard"} THEN "ocr" ELSE prompt

StageOrder(t) ==
    IF t \in {"PAPER", "WHITEBOARD"}
    THEN <<"detectNoteType", "ocr", "proofread", "sectionHeader", "extractMainTitle">>
    ELSE <<"detectNoteType", "ocr", "extractMainTitle">>

\* C12 (extraction stage order): the model calls are made in the order
\* classify, OCR, proofread and section header (PAPER / WHITEBOARD only),
\* title, each after the one before it succeeded; proofread receives the OCR
\* output and section header the proofread output; the title call receives
\* the last text with its fence wrapper stripped, and that stripped text is
\* the extractedText returned; a call that returns has made 3 model calls on
\* the default branch and 5 for PAPER / WHITEBOARD.
C12_StageOrder ==
    /\ Len(xcalls) <= Len(StageOrder(note_type))
    /\ \A k \in 1..Len(xcalls) :
        /\ StageOf(xcalls[k].prompt) = StageOrder(note_type)[k]
        /\ k < Len(xcalls) => xcalls[k].res = "ok"
        /\ xcalls[k].fn = (IF k <= 2 THEN "image" ELSE "text")
        /\ k <= 2 => xcalls[k].input = [b64 |-> ximage]
        /\ xcalls[k].prompt \in {"proofread", "sectionHeader"} =>
              xcalls[k].input = xcalls[k - 1].output
        /\ xcalls[k].prompt = "extractMainTitle" =>
              /\ xcalls[k].input = remove_markdown_code_blocks(xcalls[k - 1].output)
              /\ \A m \in 1..Len(xcalls[k].input) : ~xcalls[k].input[m].fence
    /\ xpc = "returned" =>
        /\ Len(xcalls) = (IF note_type \in {"PAPER", "WHITEBOARD"} THEN 5 ELSE 3)
        /\ xcalls[Len(xcalls)].res = "ok"
        /\ xresult.noteType = note_type
        /\ xresult.extractedText = xcalls[Len(xcalls)].input
        /\ xresult.extractedTitle.title = xcalls[Len(xcalls)].output

\* a PAPER note whose section-header answer came wrapped in a fenced block
C12_Witness ==
    /\ xpc = "returned" /\ note_type = "PAPER" /\ Len(xcalls) = 5
    /\ xcalls[4].output = <<[fence |-> TRUE, by |-> ""],
                            [fence |-> FALSE, by |-> "sectionHeader"],
                            [fence |-> TRUE, by |-> ""]>>
    /\ xresult.extractedText = <<[fence |-> FALSE, by |-> "sectionHeader"]>>

(***************************************************************************)
(* Properties of the remote store client (SpecList, SpecClient)            *)
(***************************************************************************)
RECURSIVE Concat(_)
\* the entries of the pages, page after page
Concat(pages) ==
    IF pages = <<>> THEN <<>>
    ELSE pages[1].value \o Concat(SubSeq(pages, 2, Len(pages)))

\* C13 (list_files paginates transparently): for a folder served in k >= 1
\* pages, a call whose token is accepted and whose page fetches are all
\* answered with a 2xx status fetches every page, once and in order, and
\* returns the entries of all pages in provider order; a page fetch answered
\* with a non-2xx status makes the call raise, and nothing is returned.
C13_PaginatesTransparently ==
    /\ lpc = "returned" =>
        /\ lret = Concat(lpages)
        /\ Len(lgets) = Len(lpages)
        /\ \A k \in 1..Len(lgets) : lgets[k].page = k
    /\ (\E k \in 1..Len(lgets) : ~Is2xx(lgets[k].status)) =>
        /\ lpc = "raised_http"
        /\ lret = <<>>
    /\ (/\ lpc \notin {"loop", "raised_auth"}
        /\ \A k \in 1..Len(lgets) : Is2xx(lgets[k].status)) =>
            lpc = "returned"

Answered == last_req.kind = "call" /\ last_req.status # 0

\* C14 (file_exists): whenever the metadata GET is answered, file_exists
\* returns, and returns true exactly when the status is 200; for a path that
\* is not there (status 404) it returns false and does not raise.
C14_FileExistsIffOk ==
    (Answered /\ last_req.op = "file_exists") =>
        /\ last_req.gets = 1
        /\ last_req.raised = "none"
        /\ last_req.ret = (last_req.status = 200)
        /\ last_req.status = 404 => last_req.ret = FALSE

\* the probe of a path that is not there, answered 404
C14_Witness ==
    /\ Answered /\ last_req.op = "file_exists"
    /\ ~last_req.present /\ last_req.status = 404
    /\ last_req.raised = "none" /\ last_req.ret = FALSE

\* C20 as claimed: download_file sends one content GET; a 2xx answer returns
\* the bytes, any other status raises, a NotFoundError for 404 and a
\* RemoteError for the rest.
C20_NotFoundDistinct ==
    (Answered /\ last_req.op = "download_file") =>
        /\ last_req.gets = 1
        /\ Is2xx(last_req.status) =>
              /\ last_req.raised = "none"
              /\ last_req.ret = [content_of |-> last_req.path.name,
                                 status |-> last_req.status]
        /\ ~Is2xx(last_req.status) =>
              last_req.raised = (IF last_req.status = 404 THEN "NotFoundError"
                                                          ELSE "RemoteError")

\* C20 (amended): download_file sends one content GET; an answer with a status
\* below 400 returns the bytes of the answer; a 4xx or 5xx status raises
\* HTTPError, the same class for 404 (path absent) as for every other.
C20_HttpErrorForEveryErrorStatus ==
    (Answered /\ last_req.op = "download_file") =>
        /\ last_req.gets = 1
        /\ last_req.status < 400 =>
              /\ last_req.raised = "none"
              /\ last_req.ret = [content_of |-> last_req.path.name,
                                 status |-> last_req.status]
        /\ last_req.status >= 400 => last_req.raised = "HTTPError"

\* the download of a path that is not there: 404, HTTPError
C20_Witness ==
    /\ Answered /\ last_req.op = "download_file"
    /\ ~last_req.present /\ last_req.status = 404
    /\ last_req.raised = "HTTPError"

(***************************************************************************)
(* Properties of the model calls (SpecCompletion)                          *)
(***************************************************************************)
\* C21: a call of execute_image_completion or execute_text_completion whose
\* client, image / text or prompt is missing (None) raises the error of the
\* argument check, ValueError, and has sent no request to the model endpoint;
\* a request that was sent never carries a missing image, text or prompt.
C21_ValidationBeforeNetwork ==
    /\ last_completion.kind = "call" =>
          ((\/ last_completion.client = None
            \/ last_completion.input = None
            \/ last_completion.system_prompt = None)
             => /\ last_completion.raised = "ValueError"
                /\ last_completion.requests = 0)
    /\ \A i \in 1..Len(sent) :
          /\ sent[i].system # None
          /\ sent[i].user # [image_url |-> None]
          /\ sent[i].user # [text |-> None]

\* after a request went out, a text completion is called with a client and a
\* text but no prompt: ValueError, nothing sent by the call
C21_Witness ==
    /\ Len(sent) = 1
    /\ last_completion.kind = "call"
    /\ last_completion.fn = "execute_text_completion"
    /\ last_completion.client # None /\ last_completion.input # None
    /\ last_completion.system_prompt = None
    /\ last_completion.raised = "ValueError"
    /\ last_completion.requests = 0

(***************************************************************************)
(* Properties of the path mapping (SpecPath)                               *)
(***************************************************************************)
\* C22: _get_drive_path maps the empty path to the root "/drive/root", a
\* non-empty path p without a leading slash to the reference
\* "/drive/root:/p:", and "/" + p to what it maps p to; the value depends on
\* the argument only (two calls with the same argument return the same).
C22_PathMappingPure ==
    last_path.kind = "call" =>
        /\ last_path.arg = <<>> => last_path.ret = DriveRoot
        /\ (last_path.arg # <<>> /\ Head(last_path.arg) # "/") =>
              last_path.ret = DriveRoot \o <<":", "/">> \o last_path.arg \o <<":">>
        /\ prev_path.kind = "call" =>
              /\ last_path.arg = <<"/">> \o prev_path.arg =>
                    last_path.ret = prev_path.ret
              /\ last_path.arg = prev_path.arg => last_path.ret = prev_path.ret

\* "a/a" is mapped, then "/a/a": both to "/drive/root:/a/a:"
C22_Witness ==
    /\ prev_path.kind = "call" /\ prev_path.arg = <<"a", "/", "a">>
    /\ last_path.kind = "call" /\ last_path.arg = <<"/", "a", "/", "a">>
    /\ last_path.ret = DriveRoot \o <<":", "/", "a", "/", "a", ":">>
    /\ prev_path.ret = last_path.ret

(***************************************************************************)
(* Properties of the writing calls (SpecWrite)                             *)
(***************************************************************************)
\* C23: upload_file sends its PUT, and move_file its PATCH, only when the
\* invocation of _ensure_folder_exists for the folder of the target has
\* returned; that folder is then in the store and no request of the
\* invocation follows the PUT / PATCH. When the invocation raised, which it
\* does when a create-folder request is answered with a status outside 2xx
\* other than 409, the call has sent no PUT and no PATCH and raises.
C23_EnsureBeforeWrite ==
    /\ \A k \in 1..Len(wsent) :
          /\ wsent[k].method = WriteMethod(wop)
          /\ wtarget.slash =>
                /\ epc[Ensuring] = "returned"
                /\ wtarget.folder # <<>> => Exists(folders, wtarget.folder)
                /\ wsent[k].after = Len(ereqs[Ensuring])
    /\ (\E k \in 1..Len(ereqs[Ensuring]) :
            /\ ~Is2xx(ereqs[Ensuring][k].status)
            /\ ereqs[Ensuring][k].status # 409) =>
          /\ epc[Ensuring] = "raised"
          /\ wsent = <<>>
          /\ wpc \in {"ensure", "raised"}
    /\ Len(wsent) <= 1

\* move_file to "x/y/<name>" on an empty store: two folders are created,
\* then the PATCH goes out
C23_Witness ==
    /\ wop = "move_file" /\ wpc = "returned"
    /\ wtarget.slash /\ wtarget.folder = <<"x", "y">>
    /\ folders0 = {}
    /\ Len(ereqs[Ensuring]) = 2
    /\ Len(wsent) = 1 /\ wsent[1].method = "PATCH"

(***************************************************************************)
(* Further properties of folder creation (SpecEnsure)                      *)
(***************************************************************************)
\* C24: while a folder path is ensured, a create-folder request is sent for
\* a cumulative prefix only if the prefix is not in the store when the
\* request is sent, whatever status the probes of the prefix were answered
\* with; stated for invocations that do not overlap in time.
C24_CreateOnlyMissing ==
    ~overlap =>
        \A i \in Invocations : \A k \in 1..Len(ereqs[i]) : ~ereqs[i][k].existed

(***************************************************************************)
(* Properties of the synthesized markdown (SpecSweep)                      *)
(***************************************************************************)
\* the content stored under a path of the destination folder
Stored(path) == (CHOOSE e \in store_dest : e.path = path).content

\* C25: when a file has been processed successfully (its move succeeded),
\* the two uploads before the move went to the destination folder, the
\* markdown to <title>.md and the image to <title><ext> with ext = .jpg for a
\* PDF original and the lower-cased extension of the original otherwise; the
\* image reference of the markdown stored names that image file, and the
\* created-date and last-updated of its frontmatter are the same timestamp.
C25_MarkdownNamesImage ==
    LET n == Len(calls) IN
    (n >= 3 /\ calls[n].op = "move_file" /\ calls[n].res = "ok") =>
        LET original == calls[n].path[1].name
            md       == calls[n - 2]
            img      == calls[n - 1]
        IN  /\ md.op = "upload_file" /\ md.res = "ok"
            /\ img.op = "upload_file" /\ img.res = "ok"
            /\ md.path.folder = dest_folder /\ img.path.folder = dest_folder
            /\ md.path.name.suffix = ".md"
            /\ img.path.name.stem = md.path.name.stem
            /\ img.path.name.dir = md.path.name.dir
            /\ img.path.name.suffix =
                  (IF Lower(original.suffix) = ".pdf" THEN ".jpg"
                                                      ELSE Lower(original.suffix))
            /\ md.path \in DestPaths /\ img.path \in DestPaths
            /\ Stored(md.path).image = img.path.name
            /\ Stored(md.path).created_date = Stored(md.path).last_updated

\* notes.pdf was processed after the clock had moved on: the markdown
\* stored refers to "Minutes 2025-01-01.jpg" and carries minute 55 twice
C25_Witness ==
    LET n == Len(calls) IN
    /\ n >= 3 /\ calls[n].op = "move_file" /\ calls[n].res = "ok"
    /\ calls[n].path[1].name = FileName("", "notes", ".pdf")
    /\ Stored(calls[n - 2].path).image = FileName("", "Minutes 2025-01-01", ".jpg")
    /\ Stored(calls[n - 2].path).created_date = [day |-> 1, minute |-> 55]
    /\ calls[n - 1].path.name = FileName("", "Minutes 2025-01-01", ".jpg")

(***************************************************************************)
(* Further properties of the credential cache (SpecToken)                  *)
(***************************************************************************)
\* the latest call sent a POST that the endpoint answered with an error
RefreshRejected == last_call.kind = "call" /\ "error" \in DOMAIN last_call.body

\* a call of _get_access_token that leaves a trace: it sent a POST or its
\* record differs from the one of the call before
CallStep == exchanges' # exchanges \/ last_call' # last_call

\* a call whose refresh was rejected raised after one POST and left
\* access_token and token_expires_at as they were before the call
FailedRefreshKeepsCache ==
    RefreshRejected =>
        /\ last_call.raised
        /\ last_call.posts = 1
        /\ last_call.ret = NoToken
        /\ access_token = last_call.before_token
        /\ token_expires_at = last_call.before_expires_at

\* the call that follows one whose refresh was rejected sends a POST
NextCallRefreshesAgain ==
    (RefreshRejected /\ CallStep) =>
        /\ last_call'.posts = 1
        /\ exchanges' = exchanges + 1
        /\ last_call'.before_token = access_token
        /\ last_call'.before_expires_at = token_expires_at

\* C26: when the token endpoint answers a refresh with a non-success status,
\* _get_access_token raises after that one POST, access_token and
\* token_expires_at are what they were before the call, and the next call
\* sends a refresh POST again.
C26_FailedRefreshLeavesCache ==
    []FailedRefreshKeepsCache /\ [][NextCallRefreshesAgain]_vars

\* the refresh of an expired token is rejected twice in a row: the expired
\* token and its expiry are still cached after the second call
C26_Witness ==
    /\ RefreshRejected
    /\ exchanges = 3
    /\ last_call.before_token = <<"tok", 0>>
    /\ last_call.started >= last_call.before_expires_at - 300
    /\ access_token = <<"tok", 0>>
    /\ token_expires_at = last_call.before_expires_at

====
